---- MODULE Spec2Model ----
(***************************************************************************)
(* Model of the HardFOC NTC thermistor driver (NtcThermistor.cpp,          *)
(* NtcConversion.cpp, NtcLookupTable.cpp).                                 *)
(*                                                                         *)
(* Numbers.  The code computes in IEEE float; TLC has 32-bit integers      *)
(* only, so every quantity is a fixed-point integer:                       *)
(*   voltage      millivolt            (3.3 V      = 3300)                 *)
(*   resistance   tenth of the unit    (10000 ohm  = 100000, 336.7 = 3367) *)
(*   temperature  hundredth of a degree (25.0 C    = 2500)                 *)
(*   beta         kelvin               (3435 K     = 3435)                 *)
(*   filter alpha tenth                (0.1        = 1)                    *)
(* A float comparison against epsilon 1e-6 is an equality test here, and a *)
(* float division is the floor division of the scaled operands.           *)
(***************************************************************************)
EXTENDS Integers, Sequences, FiniteSets, TLC

----------------------------------------------------------------------------
(* NTC::Constants and NTC::DefaultConfig *)

kZeroFloat == 0
kOneFloat == 10
kKelvinOffset == 27315
kReferenceTemperatureKelvinDeci == 298150
kMinResistanceOhms == 1
kMaxResistanceOhms == 10000000
kMinBetaValue == 1000
kMaxBetaValue == 5000
kDefaultResistanceAt25C == 100000
kDefaultBetaValue == 3435
kDefaultReferenceVoltage == 3300
kDefaultSeriesResistance == 100000
kDefaultMinTemperature == -4000
kDefaultMaxTemperature == 12500
kDefaultFilterAlpha == 1
kMinTemperatureCelsius == -27315
kMaxTemperatureCelsius == 100000

----------------------------------------------------------------------------
(* Fixed-point arithmetic standing for the float operations of the code *)

Abs(x) == IF x < 0 THEN -x ELSE x

\* float division a / b for b # 0, rounded toward minus infinity
FDiv(a, b) == IF b > 0 THEN a \div b ELSE (-a) \div (-b)

RECURSIVE Pow2(_)
Pow2(k) == IF k = 0 THEN 1 ELSE 2 * Pow2(k - 1)

RECURSIVE Log2Floor(_)
Log2Floor(n) == IF n < 2 THEN 0 ELSE 1 + Log2Floor(n \div 2)

\* std::log of a positive integer n, scaled by 100000: n = 2^k * m with m in
\* [1,2), ln n = k ln 2 + 2 atanh(y) with y = (m-1)/(m+1), the series cut
\* after y^7.  Mantissa is m * 2^14, AtanhArg is y * 100000.
Mantissa(n, k) == IF k > 14 THEN n \div Pow2(k - 14) ELSE n * Pow2(14 - k)

AtanhArg(nn) == ((nn - 16384) * 100000) \div (nn + 16384)

\* y * y2 with y2 = y^2, both scaled by 100000
Times(y, y2) == (y * y2) \div 100000

AtanhSeries(y, y2) ==
  y + Times(y, y2) \div 3 + Times(Times(y, y2), y2) \div 5
    + Times(Times(Times(y, y2), y2), y2) \div 7

LogOfMantissa(k, y) == k * 69315 + 2 * AtanhSeries(y, Times(y, y))

StdLog(n) == LogOfMantissa(Log2Floor(n), AtanhArg(Mantissa(n, Log2Floor(n))))

----------------------------------------------------------------------------
(* NtcConversion.cpp: validation, voltage divider, Beta equation *)

ValidateResistance(resistance_ohms, min_resistance, max_resistance) ==
  resistance_ohms >= min_resistance /\ resistance_ohms <= max_resistance

\* Variant that forgets the upper limit; C4 does not hold of it.
ValidateTemperature_NoUpperLimit(temperature_celsius, min_temperature, max_temperature) ==
  temperature_celsius >= min_temperature

ValidateTemperature(temperature_celsius, min_temperature, max_temperature) ==
  temperature_celsius >= min_temperature /\ temperature_celsius <= max_temperature

ValidateVoltage(voltage_volts, min_voltage, max_voltage) ==
  voltage_volts >= min_voltage /\ voltage_volts <= max_voltage

ValidateBetaValue(beta_value) ==
  beta_value >= kMinBetaValue /\ beta_value <= kMaxBetaValue

\* Variant that divides by the reference voltage; C21 does not hold of it.
CalculateThermistorResistance_DivideByReference(voltage_thermistor, reference_voltage, series_resistance) ==
  IF ~ValidateVoltage(voltage_thermistor, kZeroFloat, reference_voltage)
    THEN [ok |-> FALSE, r |-> 0]
  ELSE IF reference_voltage <= kZeroFloat \/ series_resistance <= kZeroFloat
    THEN [ok |-> FALSE, r |-> 0]
  ELSE IF reference_voltage - voltage_thermistor = 0
    THEN [ok |-> FALSE, r |-> 0]
  ELSE [ok |-> TRUE,
        r  |-> FDiv(series_resistance * voltage_thermistor, reference_voltage)]

\* Result [ok, r]: r is only written when ok.
CalculateThermistorResistance(voltage_thermistor, reference_voltage, series_resistance) ==
  IF ~ValidateVoltage(voltage_thermistor, kZeroFloat, reference_voltage)
    THEN [ok |-> FALSE, r |-> 0]
  ELSE IF reference_voltage <= kZeroFloat \/ series_resistance <= kZeroFloat
    THEN [ok |-> FALSE, r |-> 0]
  ELSE IF reference_voltage - voltage_thermistor = 0
    THEN [ok |-> FALSE, r |-> 0]
  ELSE [ok |-> TRUE,
        r  |-> FDiv(series_resistance * voltage_thermistor,
                    reference_voltage - voltage_thermistor)]

\* 1/T = 1/T0 + ln(R/R0)/beta.  With L = 1000 ln(R/R0) the sign of 1/T is the
\* sign of den = 100 beta + T0 L / 1000, and T = T0 * 100 beta / den.
\* InverseTemperature is the test of inv_temperature and the reciprocal.
InverseTemperature(num, den) ==
  IF den <= 0
    THEN [ok |-> FALSE, t |-> 0]
    ELSE [ok |-> TRUE,
          t  |-> (num \div den) * 10 + ((num % den) * 10) \div den - kKelvinOffset]

BetaEquation(ln_ratio, beta_value) ==
  InverseTemperature(kReferenceTemperatureKelvinDeci * beta_value,
                     100 * beta_value + (29815 * ln_ratio) \div 1000)

ConvertResistanceToTemperatureBeta(resistance_ohms, resistance_at_25c, beta_value) ==
  IF ~ValidateResistance(resistance_ohms, kMinResistanceOhms, kMaxResistanceOhms)
    THEN [ok |-> FALSE, t |-> 0]
  ELSE IF ~ValidateBetaValue(beta_value)
    THEN [ok |-> FALSE, t |-> 0]
  ELSE IF resistance_at_25c <= kZeroFloat
    THEN [ok |-> FALSE, t |-> 0]
  ELSE BetaEquation((StdLog(resistance_ohms) - StdLog(resistance_at_25c)) \div 100,
                    beta_value)

----------------------------------------------------------------------------
(* NtcConversion.cpp: Steinhart-Hart coefficients from three points.  The   *)
(* resistances are powers of Euler's number, r = e^k ohm, given by k: the   *)
(* std::log of such a float is the integer k up to the rounding of a float, *)
(* so the products of logarithms are exact integers.  1/T is in 1e-7 per    *)
(* kelvin, as are A and B; C is in 1e-8.                                    *)

\* e^k ohm in tenths of an ohm
ExpOhms(k) ==
  CASE k = -3 -> 0       [] k = 5 -> 1484   [] k = 7 -> 10966  [] k = 8 -> 29809
    [] k = 9 -> 81030    [] k = 10 -> 220264 [] k = 14 -> 12026042

Cube(x) == x * x * x

\* kOneFloat / T for the temperature t in hundredths of a degree Celsius
InverseKelvin(t) == 1000000000 \div (t + kKelvinOffset)

\* det, det_a, det_b, det_c as the code writes them out, from the logarithms
\* and the inverse temperatures
SteinhartHartDet(ln_R1, ln_R2, ln_R3) ==
  1 * (ln_R2 * Cube(ln_R3) - ln_R3 * Cube(ln_R2))
    + ln_R1 * (ln_R3 * Cube(ln_R2) - ln_R2 * Cube(ln_R3))
    + Cube(ln_R1) * (ln_R2 - ln_R3)

SteinhartHartDetA(inv_T1, inv_T2, inv_T3, ln_R1, ln_R2, ln_R3) ==
  inv_T1 * (ln_R2 * Cube(ln_R3) - ln_R3 * Cube(ln_R2))
    + inv_T2 * (ln_R3 * Cube(ln_R1) - ln_R1 * Cube(ln_R3))
    + inv_T3 * (ln_R1 * Cube(ln_R2) - ln_R2 * Cube(ln_R1))

SteinhartHartDetB(inv_T1, inv_T2, inv_T3, ln_R1, ln_R2, ln_R3) ==
  1 * (inv_T2 * Cube(ln_R3) - inv_T3 * Cube(ln_R2))
    + ln_R1 * (inv_T3 * Cube(ln_R1) - inv_T1 * Cube(ln_R3))
    + Cube(ln_R1) * (inv_T1 - inv_T2)

SteinhartHartDetC(inv_T1, inv_T2, inv_T3, ln_R1, ln_R2, ln_R3) ==
  1 * (ln_R2 * inv_T3 - ln_R3 * inv_T2)
    + ln_R1 * (ln_R3 * inv_T1 - ln_R1 * inv_T3)
    + Cube(ln_R1) * (inv_T2 - inv_T1)

ValidateSteinhartHartCoefficients(coeff_a, coeff_b, coeff_c) ==
  /\ coeff_a >= -100000 /\ coeff_a <= 100000
  /\ coeff_b >= 1000 /\ coeff_b <= 10000
  /\ coeff_c >= -10 /\ coeff_c <= 10

\* std::log of the resistance r, given in tenths of an ohm, scaled by 1000
LnOhms(r) == (StdLog(r) - 230259) \div 100

\* ln_R * ln_R * ln_R scaled by 100, for ln_R scaled by 1000
LnCubed(ln_R) == (((ln_R * ln_R) \div 10000) * ln_R) \div 1000

\* inv_temperature = A + B ln R + C (ln R)^3 in 1e-10 per kelvin
SteinhartHartEquation(ln_R, coeff_a, coeff_b, coeff_c) ==
  InverseTemperature(1000000000,
                     (1000 * coeff_a + coeff_b * ln_R + coeff_c * LnCubed(ln_R)) \div 100)

\* Result [ok, t]; A and B in 1e-7, C in 1e-8.
ConvertResistanceToTemperatureSteinhartHart(resistance_ohms, coeff_a, coeff_b, coeff_c) ==
  IF ~ValidateResistance(resistance_ohms, kMinResistanceOhms, kMaxResistanceOhms)
    THEN [ok |-> FALSE, t |-> 0]
  ELSE IF ~ValidateSteinhartHartCoefficients(coeff_a, coeff_b, coeff_c)
    THEN [ok |-> FALSE, t |-> 0]
  ELSE SteinhartHartEquation(LnOhms(resistance_ohms), coeff_a, coeff_b, coeff_c)

NoCoefficients ==
  [ok |-> FALSE, solved |-> FALSE, det |-> 0, coeff_a |-> 0, coeff_b |-> 0, coeff_c |-> 0]

\* the three divisions and the validation of their results; solved: the
\* coefficients were written
CramerQuotients(det, coeff_a, coeff_b, coeff_c) ==
  [ok |-> ValidateSteinhartHartCoefficients(coeff_a, coeff_b, coeff_c),
   solved |-> TRUE, det |-> det,
   coeff_a |-> coeff_a, coeff_b |-> coeff_b, coeff_c |-> coeff_c]

\* the test of det against kEpsilonDouble and the solution
CramerSolution(det, det_a, det_b, det_c) ==
  IF det = 0
    THEN [NoCoefficients EXCEPT !.det = det]
    ELSE CramerQuotients(det, FDiv(det_a, det), FDiv(det_b, det), FDiv(10 * det_c, det))

\* Result [ok, solved, det, coeff_a, coeff_b, coeff_c]; k1, k2, k3 give the
\* resistances.
CalculateSteinhartHartCoefficients(t1, k1, t2, k2, t3, k3) ==
  IF \/ ~ValidateTemperature(t1, kMinTemperatureCelsius, kMaxTemperatureCelsius)
     \/ ~ValidateTemperature(t2, kMinTemperatureCelsius, kMaxTemperatureCelsius)
     \/ ~ValidateTemperature(t3, kMinTemperatureCelsius, kMaxTemperatureCelsius)
    THEN NoCoefficients
  ELSE IF \/ ~ValidateResistance(ExpOhms(k1), kMinResistanceOhms, kMaxResistanceOhms)
          \/ ~ValidateResistance(ExpOhms(k2), kMinResistanceOhms, kMaxResistanceOhms)
          \/ ~ValidateResistance(ExpOhms(k3), kMinResistanceOhms, kMaxResistanceOhms)
    THEN NoCoefficients
  ELSE IF t1 = t2 \/ t2 = t3 \/ t1 = t3
    THEN NoCoefficients
  ELSE CramerSolution(
         SteinhartHartDet(k1, k2, k3),
         SteinhartHartDetA(InverseKelvin(t1), InverseKelvin(t2), InverseKelvin(t3),
                           k1, k2, k3),
         SteinhartHartDetB(InverseKelvin(t1), InverseKelvin(t2), InverseKelvin(t3),
                           k1, k2, k3),
         SteinhartHartDetC(InverseKelvin(t1), InverseKelvin(t2), InverseKelvin(t3),
                           k1, k2, k3))

----------------------------------------------------------------------------
(* NtcLookupTable.cpp *)

\* NTCG163JFT103FT1S_TABLE: <<resistance, temperature>>, 166 entries.
NTCG163JFT103FT1S_TABLE ==
    <<
       <<3367, -4000>>, <<3121, -3900>>, <<2892, -3800>>, <<2679, -3700>>, <<2481, -3600>>, <<2298, -3500>>,
       <<2128, -3400>>, <<1971, -3300>>, <<1826, -3200>>, <<1692, -3100>>, <<1568, -3000>>, <<1454, -2900>>,
       <<1349, -2800>>, <<1252, -2700>>, <<1162, -2600>>, <<1079, -2500>>, <<1002, -2400>>, <<931, -2300>>,
       <<865, -2200>>, <<804, -2100>>, <<748, -2000>>, <<696, -1900>>, <<648, -1800>>, <<604, -1700>>,
       <<563, -1600>>, <<526, -1500>>, <<491, -1400>>, <<459, -1300>>, <<430, -1200>>, <<403, -1100>>,
       <<378, -1000>>, <<355, -900>>, <<334, -800>>, <<314, -700>>, <<296, -600>>, <<279, -500>>,
       <<263, -400>>, <<248, -300>>, <<234, -200>>, <<221, -100>>, <<209, 0>>, <<198, 100>>,
       <<187, 200>>, <<177, 300>>, <<168, 400>>, <<159, 500>>, <<151, 600>>, <<143, 700>>,
       <<136, 800>>, <<129, 900>>, <<123, 1000>>, <<117, 1100>>, <<111, 1200>>, <<106, 1300>>,
       <<101, 1400>>, <<96, 1500>>, <<92, 1600>>, <<88, 1700>>, <<84, 1800>>, <<80, 1900>>,
       <<77, 2000>>, <<74, 2100>>, <<71, 2200>>, <<68, 2300>>, <<65, 2400>>, <<63, 2500>>,
       <<60, 2600>>, <<58, 2700>>, <<56, 2800>>, <<54, 2900>>, <<52, 3000>>, <<50, 3100>>,
       <<48, 3200>>, <<46, 3300>>, <<44, 3400>>, <<43, 3500>>, <<41, 3600>>, <<40, 3700>>,
       <<38, 3800>>, <<37, 3900>>, <<36, 4000>>, <<34, 4100>>, <<33, 4200>>, <<32, 4300>>,
       <<31, 4400>>, <<30, 4500>>, <<29, 4600>>, <<28, 4700>>, <<27, 4800>>, <<26, 4900>>,
       <<25, 5000>>, <<24, 5100>>, <<23, 5200>>, <<22, 5300>>, <<21, 5400>>, <<20, 5500>>,
       <<19, 5600>>, <<18, 5700>>, <<17, 5800>>, <<16, 5900>>, <<15, 6000>>, <<14, 6100>>,
       <<13, 6200>>, <<12, 6300>>, <<11, 6400>>, <<10, 6500>>, <<9, 6600>>, <<8, 6700>>,
       <<7, 6800>>, <<6, 6900>>, <<5, 7000>>, <<4, 7100>>, <<3, 7200>>, <<2, 7300>>,
       <<1, 7400>>, <<0, 7500>>, <<-1, 7600>>, <<-2, 7700>>, <<-3, 7800>>, <<-4, 7900>>,
       <<-5, 8000>>, <<-6, 8100>>, <<-7, 8200>>, <<-8, 8300>>, <<-9, 8400>>, <<-10, 8500>>,
       <<-11, 8600>>, <<-12, 8700>>, <<-13, 8800>>, <<-14, 8900>>, <<-15, 9000>>, <<-16, 9100>>,
       <<-17, 9200>>, <<-18, 9300>>, <<-19, 9400>>, <<-20, 9500>>, <<-21, 9600>>, <<-22, 9700>>,
       <<-23, 9800>>, <<-24, 9900>>, <<-25, 10000>>, <<-26, 10100>>, <<-27, 10200>>, <<-28, 10300>>,
       <<-29, 10400>>, <<-30, 10500>>, <<-31, 10600>>, <<-32, 10700>>, <<-33, 10800>>, <<-34, 10900>>,
       <<-35, 11000>>, <<-36, 11100>>, <<-37, 11200>>, <<-38, 11300>>, <<-39, 11400>>, <<-40, 11500>>,
       <<-41, 11600>>, <<-42, 11700>>, <<-43, 11800>>, <<-44, 11900>>, <<-45, 12000>>, <<-46, 12100>>,
       <<-47, 12200>>, <<-48, 12300>>, <<-49, 12400>>, <<-50, 12500>>
    >>


\* null: the table pointer is null; entries_null: its entries pointer is
NullTable ==
  [null |-> TRUE, entries_null |-> TRUE, entries |-> << >>, entry_count |-> 0,
   min_resistance |-> 0, max_resistance |-> 0,
   min_temperature |-> 0, max_temperature |-> 0]

\* NTCG163JFT103FT1S_LOOKUP_TABLE; the two other part numbers share its data.
NTCG163JFT103FT1S_LOOKUP_TABLE ==
  [null |-> FALSE, entries_null |-> FALSE, entries |-> NTCG163JFT103FT1S_TABLE,
   entry_count |-> Len(NTCG163JFT103FT1S_TABLE),
   min_resistance |-> 0, max_resistance |-> 3367,
   min_temperature |-> -4000, max_temperature |-> 12500]

NtcTypes == {"Unknown", "NtcG163Jft103Ft1S", "NtcG164Jf103Ft1S", "NtcG163Jf103Ft1S", "Custom"}

GetNtcLookupTable(ntc_type) ==
  IF ntc_type \in {"NtcG163Jft103Ft1S", "NtcG164Jf103Ft1S", "NtcG163Jf103Ft1S"}
    THEN NTCG163JFT103FT1S_LOOKUP_TABLE
    ELSE NullTable

\* Table entries are indexed from 0 in the code and from 1 in a TLA+ tuple.
EntryR(table, i) == table.entries[i + 1][1]
EntryT(table, i) == table.entries[i + 1][2]

\* Variant that accepts equal neighbours; C24 does not hold of it.
ValidateLookupTable_NonIncreasing(table) ==
  /\ ~table.null
  /\ ~table.entries_null
  /\ table.entry_count >= 2
  /\ \A i \in 1 .. table.entry_count - 1 : EntryR(table, i) <= EntryR(table, i - 1)

ValidateLookupTable(table) ==
  /\ ~table.null
  /\ ~table.entries_null
  /\ table.entry_count >= 2
  /\ \A i \in 1 .. table.entry_count - 1 : EntryR(table, i) < EntryR(table, i - 1)

\* size_t arithmetic is modular.  The modulus stands for 2^32, which a TLC
\* integer cannot hold; a wrapped cursor lies beyond every table index for
\* either modulus.
SizeModulus == Pow2(30)
SizeT(x) == x % SizeModulus

\* The while loop of BinarySearchLookupTable from cursors (left, right).
\* oob: the loop read entries[mid] with mid >= entry_count.
RECURSIVE BinarySearchLoop(_, _, _, _)
BinarySearchLoop(table, resistance_ohms, left, right) ==
  IF left > right
    THEN [found |-> FALSE, oob |-> FALSE, mid |-> 0, left |-> left, right |-> right]
  ELSE
    LET mid == left + ((right - left) \div 2)
    IN  IF mid >= table.entry_count
          THEN [found |-> FALSE, oob |-> TRUE, mid |-> mid, left |-> left, right |-> right]
        ELSE IF EntryR(table, mid) = resistance_ohms
          THEN [found |-> TRUE, oob |-> FALSE, mid |-> mid, left |-> left, right |-> right]
        ELSE IF EntryR(table, mid) < resistance_ohms
          THEN BinarySearchLoop(table, resistance_ohms, SizeT(mid + 1), right)
          ELSE BinarySearchLoop(table, resistance_ohms, left, SizeT(mid - 1))

\* The index selection after the loop ended in w.  Result [ok, lower, upper, oob].
ClosestEntries(table, w) ==
  IF w.oob
    THEN [ok |-> TRUE, lower |-> 0, upper |-> 0, oob |-> TRUE]
  ELSE IF w.found
    THEN [ok |-> TRUE, lower |-> w.mid, upper |-> w.mid, oob |-> FALSE]
  ELSE IF w.right >= table.entry_count - 1
    THEN [ok |-> TRUE, lower |-> table.entry_count - 2,
          upper |-> table.entry_count - 1, oob |-> FALSE]
  ELSE IF w.left = 0
    THEN [ok |-> TRUE, lower |-> 0, upper |-> 1, oob |-> FALSE]
    ELSE [ok |-> TRUE, lower |-> w.right, upper |-> w.left, oob |-> FALSE]

\* Result [ok, lower, upper, oob].
BinarySearchLookupTable(table, resistance_ohms) ==
  IF table.null \/ table.entry_count < 2
    THEN [ok |-> FALSE, lower |-> 0, upper |-> 0, oob |-> FALSE]
    ELSE ClosestEntries(table,
           BinarySearchLoop(table, resistance_ohms, 0, table.entry_count - 1))

InterpolateLookupEntries(r1, t1, r2, t2, resistance_ohms) ==
  LET resistance_diff == r2 - r1
  IN  IF resistance_diff = 0
        THEN [ok |-> TRUE, t |-> t1]
        ELSE [ok |-> TRUE,
              t  |-> t1 + FDiv((resistance_ohms - r1) * (t2 - t1), resistance_diff)]

\* What an out-of-bounds read of the table can lead to: the process dies, or
\* the search goes on over foreign memory and some float comes out.
GarbageTemperatures == {2600, 99900}
UbOutcomes ==
  {[crash |-> TRUE, t |-> 0]} \cup {[crash |-> FALSE, t |-> g] : g \in GarbageTemperatures}

\* FindTemperatureFromLookupTable once the search returned b: the
\* interpolation between the two entries.  Result [ok, t, crash, searched];
\* searched: the table was searched.
InterpolateFound(table, resistance_ohms, ub, b) ==
  IF ~b.ok
    THEN [ok |-> FALSE, t |-> 0, crash |-> FALSE, searched |-> TRUE]
  ELSE IF b.oob
    THEN [ok |-> ~ub.crash, t |-> ub.t, crash |-> ub.crash, searched |-> TRUE]
  ELSE
    [ok    |-> TRUE,
     t     |-> InterpolateLookupEntries(EntryR(table, b.lower), EntryT(table, b.lower),
                                        EntryR(table, b.upper), EntryT(table, b.upper),
                                        resistance_ohms).t,
     crash |-> FALSE, searched |-> TRUE]

\* Variant without the range check; C9 does not hold of it.
FindTemperatureFromLookupTable_NoRangeCheck(table, resistance_ohms, ub) ==
  IF table.null
    THEN [ok |-> FALSE, t |-> 0, crash |-> FALSE, searched |-> FALSE]
  ELSE IF ~ValidateLookupTable(table)
    THEN [ok |-> FALSE, t |-> 0, crash |-> FALSE, searched |-> FALSE]
  ELSE InterpolateFound(table, resistance_ohms, ub,
                        BinarySearchLookupTable(table, resistance_ohms))

\* Result [ok, t, crash, searched]; ub is the outcome taken if the search leaves the table.
FindTemperatureFromLookupTable(table, resistance_ohms, ub) ==
  IF table.null
    THEN [ok |-> FALSE, t |-> 0, crash |-> FALSE, searched |-> FALSE]
  ELSE IF ~ValidateLookupTable(table)
    THEN [ok |-> FALSE, t |-> 0, crash |-> FALSE, searched |-> FALSE]
  ELSE IF resistance_ohms < table.min_resistance \/ resistance_ohms > table.max_resistance
    THEN [ok |-> FALSE, t |-> 0, crash |-> FALSE, searched |-> FALSE]
  ELSE InterpolateFound(table, resistance_ohms, ub,
                        BinarySearchLookupTable(table, resistance_ohms))

\* The for loop of FindResistanceFromLookupTable from index i on: the first i
\* with entries[i].temperature <= t <= entries[i + 1].temperature.
RECURSIVE TemperatureScan(_, _, _)
TemperatureScan(table, temperature_celsius, i) ==
  IF i >= table.entry_count - 1
    THEN [found |-> FALSE, lower_index |-> 0, upper_index |-> 0]
  ELSE IF EntryT(table, i) <= temperature_celsius
          /\ EntryT(table, i + 1) >= temperature_celsius
    THEN [found |-> TRUE, lower_index |-> i, upper_index |-> i + 1]
    ELSE TemperatureScan(table, temperature_celsius, i + 1)

\* Variant that returns the lower entry's resistance; C17 does not hold of it.
InterpolateScanned_LowerEntry(table, temperature_celsius, f) ==
  IF ~f.found
    THEN [ok |-> FALSE, r |-> 0, searched |-> TRUE]
    ELSE [ok |-> TRUE, r |-> EntryR(table, f.lower_index), searched |-> TRUE]

\* FindResistanceFromLookupTable once the scan returned f.
\* Result [ok, r, searched].
InterpolateScanned(table, temperature_celsius, f) ==
  IF ~f.found
    THEN [ok |-> FALSE, r |-> 0, searched |-> TRUE]
  ELSE IF EntryT(table, f.upper_index) - EntryT(table, f.lower_index) = 0
    THEN [ok |-> TRUE, r |-> EntryR(table, f.lower_index), searched |-> TRUE]
    ELSE [ok |-> TRUE,
          r  |-> EntryR(table, f.lower_index)
                 + FDiv((temperature_celsius - EntryT(table, f.lower_index))
                          * (EntryR(table, f.upper_index) - EntryR(table, f.lower_index)),
                        EntryT(table, f.upper_index) - EntryT(table, f.lower_index)),
          searched |-> TRUE]

\* Result [ok, r, searched].
FindResistanceFromLookupTable(table, temperature_celsius) ==
  IF table.null
    THEN [ok |-> FALSE, r |-> 0, searched |-> FALSE]
  ELSE IF ~ValidateLookupTable(table)
    THEN [ok |-> FALSE, r |-> 0, searched |-> FALSE]
  ELSE IF temperature_celsius < table.min_temperature
          \/ temperature_celsius > table.max_temperature
    THEN [ok |-> FALSE, r |-> 0, searched |-> FALSE]
  ELSE InterpolateScanned(table, temperature_celsius,
                          TemperatureScan(table, temperature_celsius, 0))

----------------------------------------------------------------------------
(* NtcTypes.h: configuration record *)

ConversionMethods == {"LookupTable", "Mathematical", "Auto"}

NTC_CONFIG_DEFAULT ==
  [type |-> "NtcG163Jft103Ft1S",
   resistance_at_25c |-> kDefaultResistanceAt25C,
   beta_value |-> kDefaultBetaValue,
   reference_voltage |-> kDefaultReferenceVoltage,
   series_resistance |-> kDefaultSeriesResistance,
   calibration_offset |-> 0,
   conversion_method |-> "Auto",
   adc_channel |-> 0,
   adc_resolution_bits |-> 12,
   sample_count |-> 1,
   sample_delay_ms |-> 0,
   min_temperature |-> kDefaultMinTemperature,
   max_temperature |-> kDefaultMaxTemperature,
   enable_filtering |-> FALSE,
   filter_alpha |-> kDefaultFilterAlpha]

\* Every case of the switch assigns the same two defaults or none: the record
\* is NTC_CONFIG_DEFAULT with the type replaced.
initializeConfigForType(ntc_type) ==
  IF ntc_type \in {"NtcG163Jft103Ft1S", "NtcG164Jf103Ft1S", "NtcG163Jf103Ft1S"}
    THEN [NTC_CONFIG_DEFAULT EXCEPT !.type = ntc_type,
                                    !.resistance_at_25c = kDefaultResistanceAt25C,
                                    !.beta_value = kDefaultBetaValue]
    ELSE [NTC_CONFIG_DEFAULT EXCEPT !.type = ntc_type]

----------------------------------------------------------------------------
(* The injected ADC.  One outcome of ReadChannelV / ReadChannelCount is     *)
(* [err, mv, count]; an environment gives the outcome of EnsureInitialized, *)
(* of the first ADC read of an operation and of every later read of it, and *)
(* what an out-of-bounds table read turns into.                             *)

AdcErrors == {"SUCCESS", "NOT_INITIALIZED", "INVALID_CHANNEL", "READ_FAILED",
              "TIMEOUT", "HARDWARE_ERROR"}

\* MockEsp32Adc::IsChannelAvailable
IsChannelAvailable(channel) == channel <= 6

\* MockEsp32Adc::ReadChannelV relates count and voltage: v = count * vref / max_count.
CountOf(mv) == (mv * 4095) \div 3300

AdcAt(env, pos) == IF pos = 1 THEN env.first ELSE env.rest

----------------------------------------------------------------------------
(* NtcThermistor.cpp.  A driver together with its ADC is the record         *)
(* [config, initialized, filtered_temperature, filter_initialized,          *)
(*  adc_null, adc_initialized].  pos is the index of the next ADC read of   *)
(* the running operation.                                                   *)

convert_error(err) ==
  CASE err = "SUCCESS"         -> "NTC_SUCCESS"
    [] err = "NOT_INITIALIZED" -> "NTC_ERR_NOT_INITIALIZED"
    [] err = "INVALID_CHANNEL" -> "NTC_ERR_INVALID_PARAMETER"
    [] err = "READ_FAILED"     -> "NTC_ERR_ADC_READ_FAILED"
    [] err = "TIMEOUT"         -> "NTC_ERR_TIMEOUT"
    [] err = "HARDWARE_ERROR"  -> "NTC_ERR_HARDWARE_FAULT"
    [] OTHER                   -> "NTC_ERR_ADC_READ_FAILED"

\* Variant that accepts any beta value; C2 does not hold of it.
validateConfiguration_NoBetaCheck(c) ==
  IF c.resistance_at_25c <= kZeroFloat THEN "NTC_ERR_INVALID_PARAMETER"
  ELSE IF c.reference_voltage <= kZeroFloat THEN "NTC_ERR_INVALID_PARAMETER"
  ELSE IF c.series_resistance <= kZeroFloat THEN "NTC_ERR_INVALID_PARAMETER"
  ELSE IF c.sample_count = 0 THEN "NTC_ERR_INVALID_PARAMETER"
  ELSE IF c.min_temperature >= c.max_temperature THEN "NTC_ERR_INVALID_PARAMETER"
  ELSE IF c.enable_filtering /\ (c.filter_alpha < 0 \/ c.filter_alpha > kOneFloat)
    THEN "NTC_ERR_INVALID_PARAMETER"
  ELSE "NTC_SUCCESS"

validateConfiguration(c) ==
  IF c.resistance_at_25c <= kZeroFloat THEN "NTC_ERR_INVALID_PARAMETER"
  ELSE IF ~ValidateBetaValue(c.beta_value) THEN "NTC_ERR_INVALID_PARAMETER"
  ELSE IF c.reference_voltage <= kZeroFloat THEN "NTC_ERR_INVALID_PARAMETER"
  ELSE IF c.series_resistance <= kZeroFloat THEN "NTC_ERR_INVALID_PARAMETER"
  ELSE IF c.sample_count = 0 THEN "NTC_ERR_INVALID_PARAMETER"
  ELSE IF c.min_temperature >= c.max_temperature THEN "NTC_ERR_INVALID_PARAMETER"
  ELSE IF c.enable_filtering /\ (c.filter_alpha < 0 \/ c.filter_alpha > kOneFloat)
    THEN "NTC_ERR_INVALID_PARAMETER"
  ELSE "NTC_SUCCESS"

\* The sampling loop: n further reads from pos on; failed samples are skipped.
RECURSIVE SampleLoop(_, _, _, _)
SampleLoop(env, pos, n, useCount) ==
  IF n = 0 THEN [sum |-> 0, successful_samples |-> 0]
  ELSE LET o    == AdcAt(env, pos)
           tail == SampleLoop(env, pos + 1, n - 1, useCount)
       IN  IF o.err = "SUCCESS"
             THEN [sum |-> tail.sum + (IF useCount THEN o.count ELSE o.mv),
                   successful_samples |-> tail.successful_samples + 1]
             ELSE tail

\* Variant that divides the sum by sample_count; C11 does not hold of it.
readAdcVoltage_DivideByCount(s, env, pos) ==
  IF s.adc_null THEN [ret |-> "NTC_ERR_NULL_POINTER", v |-> 0, pos |-> pos]
  ELSE IF s.config.sample_count > 1
    THEN LET l == SampleLoop(env, pos, s.config.sample_count, FALSE)
         IN  IF l.successful_samples = 0
               THEN [ret |-> "NTC_ERR_ADC_READ_FAILED", v |-> 0,
                     pos |-> pos + s.config.sample_count]
               ELSE [ret |-> "NTC_SUCCESS", v |-> l.sum \div s.config.sample_count,
                     pos |-> pos + s.config.sample_count]
    ELSE LET o == AdcAt(env, pos)
         IN  IF o.err # "SUCCESS"
               THEN [ret |-> convert_error(o.err), v |-> 0, pos |-> pos + 1]
               ELSE [ret |-> "NTC_SUCCESS", v |-> o.mv, pos |-> pos + 1]

\* Result [ret, v, pos].
readAdcVoltage(s, env, pos) ==
  IF s.adc_null THEN [ret |-> "NTC_ERR_NULL_POINTER", v |-> 0, pos |-> pos]
  ELSE IF s.config.sample_count > 1
    THEN LET l == SampleLoop(env, pos, s.config.sample_count, FALSE)
         IN  IF l.successful_samples = 0
               THEN [ret |-> "NTC_ERR_ADC_READ_FAILED", v |-> 0,
                     pos |-> pos + s.config.sample_count]
               ELSE [ret |-> "NTC_SUCCESS", v |-> l.sum \div l.successful_samples,
                     pos |-> pos + s.config.sample_count]
    ELSE LET o == AdcAt(env, pos)
         IN  IF o.err # "SUCCESS"
               THEN [ret |-> convert_error(o.err), v |-> 0, pos |-> pos + 1]
               ELSE [ret |-> "NTC_SUCCESS", v |-> o.mv, pos |-> pos + 1]

\* Result [ret, r].
calculateResistance(s, voltage_volts) ==
  LET c == CalculateThermistorResistance(voltage_volts, s.config.reference_voltage,
                                         s.config.series_resistance)
  IN  IF ~c.ok THEN [ret |-> "NTC_ERR_CONVERSION_FAILED", r |-> 0]
               ELSE [ret |-> "NTC_SUCCESS", r |-> c.r]

\* The NTC_CONVERSION_MATHEMATICAL case and the default case: the result of
\* the Beta conversion beta as [ret, t, crash, table]; table: GetNtcLookupTable
\* was called before.
MathematicalCase(beta, consulted) ==
  IF ~beta.ok
    THEN [ret |-> "NTC_ERR_CONVERSION_FAILED", t |-> 0, crash |-> FALSE,
          table |-> consulted]
    ELSE [ret |-> "NTC_SUCCESS", t |-> beta.t, crash |-> FALSE, table |-> consulted]

\* The NTC_CONVERSION_LOOKUP_TABLE case once the table was looked up with
\* result f: its own answer, or the break into the mathematical case.
LookupCase(s, resistance_ohms, table, f) ==
  IF f.crash
    THEN [ret |-> "NTC_SUCCESS", t |-> 0, crash |-> TRUE, table |-> TRUE]
  ELSE IF ~table.null /\ f.ok
    THEN [ret |-> "NTC_SUCCESS", t |-> f.t, crash |-> FALSE, table |-> TRUE]
  ELSE MathematicalCase(
         ConvertResistanceToTemperatureBeta(resistance_ohms,
             s.config.resistance_at_25c, s.config.beta_value), TRUE)

\* Variant in which Auto selects the lookup table; C10 does not hold of it.
convertResistanceToTemperature_AutoLookup(s, resistance_ohms, ub) ==
  IF s.config.conversion_method \in {"LookupTable", "Auto"}
    THEN LookupCase(s, resistance_ohms, GetNtcLookupTable(s.config.type),
                    FindTemperatureFromLookupTable(GetNtcLookupTable(s.config.type),
                                                   resistance_ohms, ub))
    ELSE MathematicalCase(
           ConvertResistanceToTemperatureBeta(resistance_ohms,
               s.config.resistance_at_25c, s.config.beta_value), FALSE)

\* Result [ret, t, crash, table].
convertResistanceToTemperature(s, resistance_ohms, ub) ==
  IF s.config.conversion_method = "LookupTable"
    THEN LookupCase(s, resistance_ohms, GetNtcLookupTable(s.config.type),
                    FindTemperatureFromLookupTable(GetNtcLookupTable(s.config.type),
                                                   resistance_ohms, ub))
    ELSE MathematicalCase(
           ConvertResistanceToTemperatureBeta(resistance_ohms,
               s.config.resistance_at_25c, s.config.beta_value), FALSE)

\* Result [s, t]: the driver after the call and the value returned.
applyFiltering(s, new_temperature) ==
  IF ~s.config.enable_filtering
    THEN [s |-> s, t |-> new_temperature]
  ELSE IF ~s.filter_initialized
    THEN [s |-> [s EXCEPT !.filtered_temperature = new_temperature,
                          !.filter_initialized = TRUE],
          t |-> new_temperature]
  ELSE
    LET f == (s.config.filter_alpha * new_temperature
              + (kOneFloat - s.config.filter_alpha) * s.filtered_temperature) \div kOneFloat
    IN  [s |-> [s EXCEPT !.filtered_temperature = f], t |-> f]

\* What an operation reports besides its return code.  voltage and resistance
\* are -1 and conv_ret is "none" when the operation did not get that far.
NoDiag ==
  [voltage |-> -1, resistance |-> -1, conv_ret |-> "none", raw |-> 0, unf |-> 0,
   table |-> FALSE]

NoReading ==
  [temperature_celsius |-> 0, temperature_fahrenheit |-> 0, temperature_kelvin |-> 0,
   resistance_ohms |-> 0, voltage_volts |-> 0, adc_raw_value |-> 0,
   is_valid |-> FALSE, error |-> "NTC_SUCCESS"]

\* Result of an operation: the driver after it, the return code, the value
\* stored through the output pointer (written says whether one was stored),
\* the index of the next ADC read, the number of ADC calls other than reads.
Res(s, ret, out, written, pos, diag) ==
  [s |-> s, ret |-> ret, out |-> out, written |-> written, pos |-> pos,
   calls |-> 0, crash |-> FALSE, diag |-> diag, reading |-> NoReading]

CelsiusToFahrenheit(celsius) == (celsius * 9) \div 5 + 3200
CelsiusToKelvin(celsius) == celsius + kKelvinOffset

\* Variant without the early return for an initialized driver; C3 does not
\* hold of it.
Initialize_NoEarlyReturn(s, env) ==
  IF validateConfiguration(s.config) # "NTC_SUCCESS"
    THEN Res(s, "false", 0, FALSE, 1, NoDiag)
  ELSE IF s.adc_null
    THEN Res(s, "false", 0, FALSE, 1, NoDiag)
  ELSE IF ~s.adc_initialized /\ ~env.ensure_ok
    THEN [Res(s, "false", 0, FALSE, 1, NoDiag) EXCEPT !.calls = 2]
  ELSE
    LET a == [s EXCEPT !.adc_initialized = TRUE]
        n == IF s.adc_initialized THEN 2 ELSE 3
    IN  IF ~IsChannelAvailable(s.config.adc_channel)
          THEN [Res(a, "false", 0, FALSE, 1, NoDiag) EXCEPT !.calls = n]
          ELSE [Res([a EXCEPT !.filter_initialized = FALSE,
                              !.filtered_temperature = kZeroFloat,
                              !.initialized = TRUE],
                    "true", 0, FALSE, 1, NoDiag) EXCEPT !.calls = n]

Initialize(s, env) ==
  IF s.initialized
    THEN Res(s, "true", 0, FALSE, 1, NoDiag)
  ELSE IF validateConfiguration(s.config) # "NTC_SUCCESS"
    THEN Res(s, "false", 0, FALSE, 1, NoDiag)
  ELSE IF s.adc_null
    THEN Res(s, "false", 0, FALSE, 1, NoDiag)
  ELSE IF ~s.adc_initialized /\ ~env.ensure_ok
    THEN [Res(s, "false", 0, FALSE, 1, NoDiag) EXCEPT !.calls = 2]
  ELSE
    LET a == [s EXCEPT !.adc_initialized = TRUE]
        n == IF s.adc_initialized THEN 2 ELSE 3
    IN  IF ~IsChannelAvailable(s.config.adc_channel)
          THEN [Res(a, "false", 0, FALSE, 1, NoDiag) EXCEPT !.calls = n]
          ELSE [Res([a EXCEPT !.filter_initialized = FALSE,
                              !.filtered_temperature = kZeroFloat,
                              !.initialized = TRUE],
                    "true", 0, FALSE, 1, NoDiag) EXCEPT !.calls = n]

\* Variant that also clears the calibration offset; C30 does not hold of it.
Deinitialize_ClearsCalibration(s) ==
  IF ~s.initialized
    THEN Res(s, "true", 0, FALSE, 1, NoDiag)
    ELSE Res([s EXCEPT !.initialized = FALSE, !.filter_initialized = FALSE,
                       !.filtered_temperature = kZeroFloat,
                       !.config.calibration_offset = kZeroFloat],
             "true", 0, FALSE, 1, NoDiag)

Deinitialize(s) ==
  IF ~s.initialized
    THEN Res(s, "true", 0, FALSE, 1, NoDiag)
    ELSE Res([s EXCEPT !.initialized = FALSE, !.filter_initialized = FALSE,
                       !.filtered_temperature = kZeroFloat],
             "true", 0, FALSE, 1, NoDiag)

SetConfiguration(s, c) ==
  IF validateConfiguration(c) # "NTC_SUCCESS"
    THEN Res(s, validateConfiguration(c), 0, FALSE, 1, NoDiag)
    ELSE Res([s EXCEPT !.config = c, !.filter_initialized = FALSE,
                       !.filtered_temperature = kZeroFloat],
             "NTC_SUCCESS", 0, FALSE, 1, NoDiag)

\* ReadTemperatureCelsius in four steps, each given what the step before
\* returned: v from readAdcVoltage, r from calculateResistance, c from
\* convertResistanceToTemperature, f from the offset and the filter.
Validated(v, d, f, min_temperature, max_temperature) ==
  IF ~ValidateTemperature(f.t, min_temperature, max_temperature)
    THEN Res(f.s, "NTC_ERR_TEMPERATURE_OUT_OF_RANGE", f.t, TRUE, v.pos, d)
    ELSE Res(f.s, "NTC_SUCCESS", f.t, TRUE, v.pos, d)

Filtered(s, temperature_celsius) ==
  IF s.config.enable_filtering
    THEN applyFiltering(s, temperature_celsius)
    ELSE [s |-> s, t |-> temperature_celsius]

Converted(s, v, r, c) ==
  IF c.crash
    THEN [Res(s, "NTC_SUCCESS", 0, FALSE, v.pos,
              [NoDiag EXCEPT !.voltage = v.v, !.resistance = r.r, !.conv_ret = c.ret,
                             !.raw = c.t, !.table = c.table])
            EXCEPT !.crash = TRUE]
  ELSE IF c.ret # "NTC_SUCCESS"
    THEN Res(s, c.ret, 0, FALSE, v.pos,
             [NoDiag EXCEPT !.voltage = v.v, !.resistance = r.r, !.conv_ret = c.ret,
                            !.raw = c.t, !.table = c.table])
  ELSE Validated(v,
                 [voltage |-> v.v, resistance |-> r.r, conv_ret |-> c.ret,
                  raw |-> c.t, unf |-> c.t + s.config.calibration_offset,
                  table |-> c.table],
                 Filtered(s, c.t + s.config.calibration_offset),
                 s.config.min_temperature, s.config.max_temperature)

Resisted(s, env, v, r) ==
  IF r.ret # "NTC_SUCCESS"
    THEN Res(s, r.ret, 0, FALSE, v.pos, [NoDiag EXCEPT !.voltage = v.v])
    ELSE Converted(s, v, r, convertResistanceToTemperature(s, r.r, env.ub))

Measured(s, env, v) ==
  IF v.ret # "NTC_SUCCESS"
    THEN Res(s, v.ret, 0, FALSE, v.pos, NoDiag)
    ELSE Resisted(s, env, v, calculateResistance(s, v.v))

ReadTemperatureCelsius(s, env, pos, out_null) ==
  IF out_null THEN Res(s, "NTC_ERR_NULL_POINTER", 0, FALSE, pos, NoDiag)
  ELSE IF ~s.initialized THEN Res(s, "NTC_ERR_NOT_INITIALIZED", 0, FALSE, pos, NoDiag)
  ELSE Measured(s, env, readAdcVoltage(s, env, pos))

\* the conversion of a Celsius result c into another unit
InUnit(c, fahrenheit) ==
  IF c.ret = "NTC_SUCCESS" /\ ~c.crash
    THEN [c EXCEPT !.out = IF fahrenheit THEN CelsiusToFahrenheit(c.out)
                                         ELSE CelsiusToKelvin(c.out)]
    ELSE [c EXCEPT !.out = 0, !.written = FALSE]

ReadTemperatureFahrenheit(s, env, pos, out_null) ==
  IF out_null THEN Res(s, "NTC_ERR_NULL_POINTER", 0, FALSE, pos, NoDiag)
  ELSE InUnit(ReadTemperatureCelsius(s, env, pos, FALSE), TRUE)

ReadTemperatureKelvin(s, env, pos, out_null) ==
  IF out_null THEN Res(s, "NTC_ERR_NULL_POINTER", 0, FALSE, pos, NoDiag)
  ELSE InUnit(ReadTemperatureCelsius(s, env, pos, FALSE), FALSE)

\* Variant without the initialization check; C1 does not hold of it.
GetVoltage_NoInitCheck(s, env, pos, out_null) ==
  IF out_null THEN Res(s, "NTC_ERR_NULL_POINTER", 0, FALSE, pos, NoDiag)
  ELSE LET v == readAdcVoltage(s, env, pos)
       IN  Res(s, v.ret, v.v, v.ret = "NTC_SUCCESS", v.pos, NoDiag)

GetVoltage(s, env, pos, out_null) ==
  IF out_null THEN Res(s, "NTC_ERR_NULL_POINTER", 0, FALSE, pos, NoDiag)
  ELSE IF ~s.initialized THEN Res(s, "NTC_ERR_NOT_INITIALIZED", 0, FALSE, pos, NoDiag)
  ELSE LET v == readAdcVoltage(s, env, pos)
       IN  Res(s, v.ret, v.v, v.ret = "NTC_SUCCESS", v.pos, NoDiag)

\* GetResistance once readAdcVoltage returned v
ResistanceOf(s, v, r) ==
  IF v.ret # "NTC_SUCCESS"
    THEN Res(s, v.ret, 0, FALSE, v.pos, NoDiag)
    ELSE Res(s, r.ret, r.r, r.ret = "NTC_SUCCESS", v.pos, [NoDiag EXCEPT !.voltage = v.v])

GetResistance(s, env, pos, out_null) ==
  IF out_null THEN Res(s, "NTC_ERR_NULL_POINTER", 0, FALSE, pos, NoDiag)
  ELSE IF ~s.initialized THEN Res(s, "NTC_ERR_NOT_INITIALIZED", 0, FALSE, pos, NoDiag)
  ELSE ResistanceOf(s, readAdcVoltage(s, env, pos),
                    calculateResistance(s, readAdcVoltage(s, env, pos).v))

GetRawAdcValue(s, env, pos, out_null) ==
  IF out_null THEN Res(s, "NTC_ERR_NULL_POINTER", 0, FALSE, pos, NoDiag)
  ELSE IF ~s.initialized THEN Res(s, "NTC_ERR_NOT_INITIALIZED", 0, FALSE, pos, NoDiag)
  ELSE IF s.adc_null THEN Res(s, "NTC_ERR_NULL_POINTER", 0, FALSE, pos, NoDiag)
  ELSE IF s.config.sample_count > 1
    THEN LET l == SampleLoop(env, pos, s.config.sample_count, TRUE)
         IN  IF l.successful_samples = 0
               THEN Res(s, "NTC_ERR_ADC_READ_FAILED", 0, FALSE,
                        pos + s.config.sample_count, NoDiag)
               ELSE Res(s, "NTC_SUCCESS", l.sum \div l.successful_samples, TRUE,
                        pos + s.config.sample_count, NoDiag)
    ELSE LET o == AdcAt(env, pos)
         IN  IF o.err # "SUCCESS"
               THEN Res(s, convert_error(o.err), 0, FALSE, pos + 1, NoDiag)
               ELSE Res(s, "NTC_SUCCESS", o.count, TRUE, pos + 1, NoDiag)

\* The reading filled in by ReadTemperature from the Celsius result c and the
\* results gr, gv, ga of the three Get calls, which run whatever they return;
\* a failed one leaves the zero its local was initialised with.
FilledReading(c, gr, gv, ga) ==
  [c EXCEPT !.s = ga.s, !.pos = ga.pos, !.written = TRUE,
            !.reading =
              [temperature_celsius |-> c.out,
               temperature_fahrenheit |-> CelsiusToFahrenheit(c.out),
               temperature_kelvin |-> CelsiusToKelvin(c.out),
               resistance_ohms |-> gr.out,
               voltage_volts |-> gv.out,
               adc_raw_value |-> ga.out,
               is_valid |-> TRUE,
               error |-> "NTC_SUCCESS"]]

AfterVoltage(env, c, gr, gv) ==
  FilledReading(c, gr, gv, GetRawAdcValue(gv.s, env, gv.pos, FALSE))

AfterResistance(env, c, gr) ==
  AfterVoltage(env, c, gr, GetVoltage(gr.s, env, gr.pos, FALSE))

AfterCelsius(env, c) ==
  IF c.crash THEN c
  ELSE IF c.ret # "NTC_SUCCESS"
    THEN [c EXCEPT !.out = 0, !.written = TRUE,
                   !.reading = [NoReading EXCEPT !.error = c.ret]]
  ELSE AfterResistance(env, c, GetResistance(c.s, env, c.pos, FALSE))

ReadTemperature(s, env, pos, out_null) ==
  IF out_null THEN Res(s, "NTC_ERR_NULL_POINTER", 0, FALSE, pos, NoDiag)
  ELSE AfterCelsius(env, ReadTemperatureCelsius(s, env, pos, FALSE))

\* Calibrate once its ReadTemperatureCelsius returned c
NewOffset(reference_temperature_celsius, c) ==
  IF c.crash \/ c.ret # "NTC_SUCCESS"
    THEN [c EXCEPT !.out = 0, !.written = FALSE]
    ELSE [c EXCEPT !.s.config.calibration_offset = reference_temperature_celsius - c.out,
                   !.out = 0, !.written = FALSE]

Calibrate(s, reference_temperature_celsius, env) ==
  IF ~s.initialized THEN Res(s, "NTC_ERR_NOT_INITIALIZED", 0, FALSE, 1, NoDiag)
  ELSE NewOffset(reference_temperature_celsius, ReadTemperatureCelsius(s, env, 1, FALSE))

SetCalibrationOffset(s, offset_celsius) ==
  Res([s EXCEPT !.config.calibration_offset = offset_celsius],
      "NTC_SUCCESS", 0, FALSE, 1, NoDiag)

ResetCalibration(s) == SetCalibrationOffset(s, kZeroFloat)

SetConversionMethod(s, method) ==
  Res([s EXCEPT !.config.conversion_method = method], "NTC_SUCCESS", 0, FALSE, 1, NoDiag)

SetVoltageDivider(s, series_resistance) ==
  IF series_resistance <= kZeroFloat
    THEN Res(s, "NTC_ERR_INVALID_PARAMETER", 0, FALSE, 1, NoDiag)
    ELSE Res([s EXCEPT !.config.series_resistance = series_resistance],
             "NTC_SUCCESS", 0, FALSE, 1, NoDiag)

SetReferenceVoltage(s, reference_voltage) ==
  IF reference_voltage <= kZeroFloat
    THEN Res(s, "NTC_ERR_INVALID_PARAMETER", 0, FALSE, 1, NoDiag)
    ELSE Res([s EXCEPT !.config.reference_voltage = reference_voltage],
             "NTC_SUCCESS", 0, FALSE, 1, NoDiag)

\* Variant that stores any beta value; C26 does not hold of it.
SetBetaValue_NoCheck(s, beta_value) ==
  Res([s EXCEPT !.config.beta_value = beta_value], "NTC_SUCCESS", 0, FALSE, 1, NoDiag)

SetBetaValue(s, beta_value) ==
  IF ~ValidateBetaValue(beta_value)
    THEN Res(s, "NTC_ERR_INVALID_PARAMETER", 0, FALSE, 1, NoDiag)
    ELSE Res([s EXCEPT !.config.beta_value = beta_value],
             "NTC_SUCCESS", 0, FALSE, 1, NoDiag)

SetAdcChannel(s, adc_channel) ==
  IF ~s.adc_null /\ ~IsChannelAvailable(adc_channel)
    THEN [Res(s, "NTC_ERR_INVALID_PARAMETER", 0, FALSE, 1, NoDiag) EXCEPT !.calls = 1]
    ELSE [Res([s EXCEPT !.config.adc_channel = adc_channel],
              "NTC_SUCCESS", 0, FALSE, 1, NoDiag)
            EXCEPT !.calls = IF s.adc_null THEN 0 ELSE 1]

SetSamplingParameters(s, sample_count, sample_delay_ms) ==
  IF sample_count = 0
    THEN Res(s, "NTC_ERR_INVALID_PARAMETER", 0, FALSE, 1, NoDiag)
    ELSE Res([s EXCEPT !.config.sample_count = sample_count,
                       !.config.sample_delay_ms = sample_delay_ms],
             "NTC_SUCCESS", 0, FALSE, 1, NoDiag)

\* Variant that resets the filter before it checks alpha; C25 does not hold
\* of it.
SetFiltering_ResetsBeforeCheck(s, enable, alpha) ==
  IF alpha < 0 \/ alpha > kOneFloat
    THEN Res([s EXCEPT !.filter_initialized = FALSE,
                       !.filtered_temperature = kZeroFloat],
             "NTC_ERR_INVALID_PARAMETER", 0, FALSE, 1, NoDiag)
    ELSE Res([s EXCEPT !.config.enable_filtering = enable,
                       !.config.filter_alpha = alpha,
                       !.filter_initialized = FALSE,
                       !.filtered_temperature = kZeroFloat],
             "NTC_SUCCESS", 0, FALSE, 1, NoDiag)

SetFiltering(s, enable, alpha) ==
  IF alpha < 0 \/ alpha > kOneFloat
    THEN Res(s, "NTC_ERR_INVALID_PARAMETER", 0, FALSE, 1, NoDiag)
    ELSE Res([s EXCEPT !.config.enable_filtering = enable,
                       !.config.filter_alpha = alpha,
                       !.filter_initialized = FALSE,
                       !.filtered_temperature = kZeroFloat],
             "NTC_SUCCESS", 0, FALSE, 1, NoDiag)

----------------------------------------------------------------------------
(* Bounds of the exploration and the inputs the operations are tried with *)

\* calls per run that change the configuration or the filter
MaxChanges == 3

Ok(mv) == [err |-> "SUCCESS", mv |-> mv, count |-> CountOf(mv)]
Fail(err) == [err |-> err, mv |-> 0, count |-> 0]

\* 0 V: zero resistance; 0.1 V: 312.5 ohm (153 C); 1.65 V: 10 kohm (25 C);
\* 2.2 V: 20 kohm (8 C); 3.3 V: the divider equation has no solution.
Voltages == {0, 100, 1650, 2200, 3300}
ReadFailures == {"READ_FAILED", "TIMEOUT"}

\* every read of the operation alike, or the first read unlike the later ones
Scripts ==
  {[first |-> Ok(v), rest |-> Ok(v)] : v \in Voltages}
  \cup {[first |-> Fail(e), rest |-> Fail(e)] : e \in ReadFailures}
  \cup {[first |-> Ok(1650), rest |-> Ok(2200)],
        [first |-> Ok(1650), rest |-> Fail("READ_FAILED")],
        [first |-> Fail("TIMEOUT"), rest |-> Ok(1650)]}

\* the scripts the temperature conversions in other units, the Get calls and
\* Calibrate are tried with
FewScripts ==
  {[first |-> Ok(v), rest |-> Ok(v)] : v \in {100, 1650, 2200, 3300}}
  \cup {[first |-> Fail("TIMEOUT"), rest |-> Fail("TIMEOUT")],
        [first |-> Ok(1650), rest |-> Fail("READ_FAILED")]}

NoUb == [crash |-> FALSE, t |-> 0]
NoEnv == [ensure_ok |-> TRUE, first |-> Fail("READ_FAILED"), rest |-> Fail("READ_FAILED"),
          ub |-> NoUb]

\* the voltage of a script whose reads all succeed alike, else -1
ConstantVoltage(env) ==
  IF env.first = env.rest /\ env.first.err = "SUCCESS" THEN env.first.mv ELSE -1

\* the configuration of the example test program (init_test_resources)
TestConfig ==
  [NTC_CONFIG_DEFAULT EXCEPT !.type = "Custom", !.beta_value = 3950]

InitialConfigs ==
  {initializeConfigForType("NtcG163Jft103Ft1S"),
   [initializeConfigForType("Unknown") EXCEPT !.conversion_method = "LookupTable"],
   [NTC_CONFIG_DEFAULT EXCEPT !.beta_value = 0],
   [NTC_CONFIG_DEFAULT EXCEPT !.adc_channel = 7]}

NewConfigs ==
  {TestConfig,
   [NTC_CONFIG_DEFAULT EXCEPT !.adc_channel = 7, !.enable_filtering = TRUE,
                              !.filter_alpha = 5, !.calibration_offset = 150],
   [NTC_CONFIG_DEFAULT EXCEPT !.min_temperature = 12500]}

CalibrationReferences == {2500}
Offsets == {150}
SeriesResistances == {0, 100000}
ReferenceVoltages == {0, 3300}
BetaValues == {500, 3950}
AdcChannels == {3, 7}
SampleCounts == {0, 2, 3}
FilterAlphas == {5, 11}

----------------------------------------------------------------------------
(* State *)

VARIABLES
  config,                \* NtcThermistor::config_
  initialized,           \* NtcThermistor::initialized_
  filtered_temperature,  \* NtcThermistor::filtered_temperature_
  filter_initialized,    \* NtcThermistor::filter_initialized_
  adc_null,              \* NtcThermistor::adc_interface_ == nullptr
  adc_initialized,       \* the ADC's own initialized flag
  crashed,               \* the process died in an out-of-bounds read
  last,                  \* the call that just returned, until the caller drops it
  prev,                  \* what the call before was, where a property asks
  epoch,                 \* reads since the filter was last reset
  changes,               \* calls so far that changed configuration or filter
  twin,                  \* a second driver, Auto and Mathematical exchanged
  call,                  \* the table function call that just returned
  threads                \* the calls in progress when two threads share the driver

vars == <<config, initialized, filtered_temperature, filter_initialized, adc_null,
          adc_initialized, crashed, last, prev, epoch, changes, twin, call, threads>>

Sys ==
  [config |-> config, initialized |-> initialized,
   filtered_temperature |-> filtered_temperature,
   filter_initialized |-> filter_initialized,
   adc_null |-> adc_null, adc_initialized |-> adc_initialized]

SwapMethod(m) ==
  IF m = "Auto" THEN "Mathematical" ELSE IF m = "Mathematical" THEN "Auto" ELSE m

SwapConfig(c) == [c EXCEPT !.conversion_method = SwapMethod(c.conversion_method)]

NoEpoch == [reads |-> 0, raw1 |-> 0, steps |-> 0]

NoTwinResult == [ret |-> "none", out |-> 0, written |-> FALSE, table |-> FALSE]

NoLast ==
  [op |-> "none", ret |-> "none", out |-> 0, written |-> FALSE, reads |-> 0,
   calls |-> 0, arg |-> 0, mv |-> -1, first |-> NoEnv.first, rest |-> NoEnv.rest,
   flag |-> FALSE, diag |-> NoDiag,
   reading |-> NoReading, twin |-> NoTwinResult]

\* the driver as constructed around the default configuration
NoDriver ==
  [config |-> NTC_CONFIG_DEFAULT, initialized |-> FALSE,
   filtered_temperature |-> kZeroFloat, filter_initialized |-> FALSE,
   adc_null |-> FALSE, adc_initialized |-> FALSE]

\* cal: the call before was a plain Calibrate of ref at mv; deinit: it was
\* Deinitialize, on the driver before; reinit: it was an Initialize that
\* followed a Deinitialize on the driver before
NoPrev ==
  [cal |-> FALSE, ref |-> 0, mv |-> -1, deinit |-> FALSE, reinit |-> FALSE,
   before |-> NoDriver]

\* op: the function called; table, arg: its inputs; ok, out, crash: what it
\* returned; round_trip: arg is the temperature the call before returned for
\* the resistance from
NoCall ==
  [op |-> "none", table |-> NullTable, arg |-> 0, ok |-> FALSE, out |-> 0,
   crash |-> FALSE, round_trip |-> FALSE, from |-> 0]

\* One thread's call: op, its inputs (mv the ADC voltage, enable and alpha),
\* pc the statement it is about to execute, t the temperature it holds in a
\* local, ret and out what it returned.
IdleThread ==
  [op |-> "none", pc |-> "idle", mv |-> 0, enable |-> FALSE, alpha |-> 0, t |-> 0,
   ret |-> "none", out |-> 0]

Threads == {1, 2}

\* start: the driver when the threads were started
NoThreads ==
  [start |-> [config |-> NTC_CONFIG_DEFAULT, initialized |-> FALSE,
              filtered_temperature |-> kZeroFloat, filter_initialized |-> FALSE,
              adc_null |-> FALSE, adc_initialized |-> FALSE],
   of    |-> [i \in Threads |-> IdleThread]]

Init ==
  /\ config \in InitialConfigs
  /\ initialized = FALSE
  /\ filtered_temperature = kZeroFloat
  /\ filter_initialized = FALSE
  /\ adc_null \in BOOLEAN
  /\ adc_initialized \in BOOLEAN
  /\ (adc_null \/ adc_initialized) => config = NTC_CONFIG_DEFAULT
  /\ ~(adc_null /\ adc_initialized)
  /\ crashed = FALSE
  /\ last = NoLast
  /\ prev = NoPrev
  /\ epoch = NoEpoch
  /\ changes = 0
  /\ twin = [Sys EXCEPT !.config = SwapConfig(config)]
  /\ call = NoCall
  /\ threads = NoThreads

----------------------------------------------------------------------------
(* Actions: one per public operation.  r is the result on the driver, r2 the *)
(* result of the same call on the twin.  A call is made when the caller has  *)
(* dropped the record of the one before (Forget), so that every state of the *)
(* driver is explored once, not once per result that led to it.              *)

Ready == ~crashed /\ last.op = "none"

\* env: the ADC script the call ran against; flag: the Boolean input of the
\* call (EnsureInitialized succeeds, the output pointer is null)
Commit(op, r, r2, arg, env, flag, e, ch) ==
  /\ config' = r.s.config
  /\ initialized' = r.s.initialized
  /\ filtered_temperature' = r.s.filtered_temperature
  /\ filter_initialized' = r.s.filter_initialized
  /\ adc_null' = adc_null
  /\ adc_initialized' = r.s.adc_initialized
  /\ crashed' = r.crash
  /\ last' = [op |-> op, ret |-> r.ret, out |-> r.out, written |-> r.written,
              reads |-> r.pos - 1, calls |-> r.calls, arg |-> arg,
              mv |-> ConstantVoltage(env), first |-> env.first, rest |-> env.rest,
              flag |-> flag, diag |-> r.diag, reading |-> r.reading,
              twin |-> [ret |-> r2.ret, out |-> r2.out, written |-> r2.written,
                        table |-> r2.diag.table]]
  /\ twin' = r2.s
  /\ prev' = IF op = "Calibrate" /\ r.ret = "NTC_SUCCESS" /\ ~r.crash
                 /\ ConstantVoltage(env) >= 0 /\ ~config.enable_filtering
               THEN [NoPrev EXCEPT !.cal = TRUE, !.ref = arg, !.mv = ConstantVoltage(env)]
             ELSE IF op = "Deinitialize"
               THEN [NoPrev EXCEPT !.deinit = TRUE, !.before = Sys]
             ELSE IF op = "Initialize" /\ prev.deinit
               THEN [NoPrev EXCEPT !.reinit = TRUE, !.before = prev.before]
               ELSE NoPrev
  /\ epoch' = e
  /\ changes' = ch
  /\ call' = call
  /\ threads' = threads

\* epoch after an operation that ran ReadTemperatureCelsius with result r
EpochAfterRead(r) ==
  LET applied == config.enable_filtering /\ r.diag.conv_ret = "NTC_SUCCESS" /\ ~r.crash
      success == applied /\ r.ret = "NTC_SUCCESS"
  IN  [reads |-> IF success THEN epoch.reads + 1 ELSE epoch.reads,
       raw1  |-> IF success /\ epoch.reads = 0 THEN r.diag.unf ELSE epoch.raw1,
       steps |-> IF applied THEN epoch.steps + 1 ELSE epoch.steps]

EpochAfterSet(r) == IF r.ret = "NTC_SUCCESS" THEN NoEpoch ELSE epoch

\* a call counts when it changed the configuration or reset the filter, or
\* folded a temperature into the filter
ChangesAfter(r) ==
  IF \/ r.s.config # config
     \/ r.s.filter_initialized # filter_initialized
     \/ r.s.filtered_temperature # filtered_temperature
     \/ (config.enable_filtering /\ r.diag.conv_ret = "NTC_SUCCESS" /\ ~r.crash)
    THEN changes + 1 ELSE changes

FilterBudget == (config.enable_filtering /\ initialized) => changes < MaxChanges

\* environments of a reading call: a script, and an out-of-bounds outcome when
\* the call can get to the lookup table
ReadEnvs(out_null, lookup, scripts) ==
  IF out_null THEN {NoEnv}
  ELSE {[ensure_ok |-> TRUE, first |-> sc.first, rest |-> sc.rest, ub |-> u] :
          sc \in scripts,
          u \in IF lookup /\ initialized /\ config.conversion_method = "LookupTable"
                  THEN UbOutcomes ELSE {NoUb}}

\* the return of an operation that ran ReadTemperatureCelsius
CommitRead(op, r, r2, arg, env, flag) ==
  Commit(op, r, r2, arg, env, flag, EpochAfterRead(r), ChangesAfter(r))

\* the return of a setter; resets tells whether its success resets the filter
CommitSet(op, r, r2, arg, resets) ==
  Commit(op, r, r2, arg, NoEnv, FALSE, IF resets THEN EpochAfterSet(r) ELSE epoch,
         ChangesAfter(r))

\* the return of Initialize
CommitInitialize(r, r2, ensure_ok) ==
  Commit("Initialize", r, r2, 0, NoEnv, ensure_ok,
         IF r.ret = "true" /\ ~initialized THEN NoEpoch ELSE epoch, changes)

DoInitialize ==
  /\ Ready
  /\ \E ensure_ok \in BOOLEAN :
       CommitInitialize(Initialize(Sys, [NoEnv EXCEPT !.ensure_ok = ensure_ok]),
                        Initialize(twin, [NoEnv EXCEPT !.ensure_ok = ensure_ok]),
                        ensure_ok)

DoDeinitialize ==
  /\ Ready
  /\ Commit("Deinitialize", Deinitialize(Sys), Deinitialize(twin), 0, NoEnv, FALSE,
            IF initialized THEN NoEpoch ELSE epoch, changes)

DoSetConfiguration ==
  /\ Ready /\ changes < MaxChanges
  /\ \E c \in NewConfigs :
       CommitSet("SetConfiguration", SetConfiguration(Sys, c),
                 SetConfiguration(twin, SwapConfig(c)), 0, TRUE)

DoReadTemperatureCelsius ==
  /\ Ready /\ FilterBudget
  /\ \E out_null \in BOOLEAN : \E env \in ReadEnvs(out_null, TRUE, Scripts) :
       CommitRead("ReadTemperatureCelsius",
                  ReadTemperatureCelsius(Sys, env, 1, out_null),
                  ReadTemperatureCelsius(twin, env, 1, out_null),
                  0, env, out_null)

DoReadTemperatureFahrenheit ==
  /\ Ready /\ FilterBudget
  /\ \E out_null \in BOOLEAN : \E env \in ReadEnvs(out_null, TRUE, FewScripts) :
       CommitRead("ReadTemperatureFahrenheit",
                  ReadTemperatureFahrenheit(Sys, env, 1, out_null),
                  ReadTemperatureFahrenheit(twin, env, 1, out_null),
                  0, env, out_null)

DoReadTemperatureKelvin ==
  /\ Ready /\ FilterBudget
  /\ \E out_null \in BOOLEAN : \E env \in ReadEnvs(out_null, TRUE, FewScripts) :
       CommitRead("ReadTemperatureKelvin",
                  ReadTemperatureKelvin(Sys, env, 1, out_null),
                  ReadTemperatureKelvin(twin, env, 1, out_null),
                  0, env, out_null)

DoReadTemperature ==
  /\ Ready /\ FilterBudget
  /\ \E out_null \in BOOLEAN : \E env \in ReadEnvs(out_null, TRUE, Scripts) :
       CommitRead("ReadTemperature",
                  ReadTemperature(Sys, env, 1, out_null),
                  ReadTemperature(twin, env, 1, out_null),
                  0, env, out_null)

DoGetResistance ==
  /\ Ready
  /\ \E out_null \in BOOLEAN : \E env \in ReadEnvs(out_null, FALSE, FewScripts) :
       Commit("GetResistance", GetResistance(Sys, env, 1, out_null),
              GetResistance(twin, env, 1, out_null),
              0, env, out_null, epoch, changes)

DoGetVoltage ==
  /\ Ready
  /\ \E out_null \in BOOLEAN : \E env \in ReadEnvs(out_null, FALSE, FewScripts) :
       Commit("GetVoltage", GetVoltage(Sys, env, 1, out_null),
              GetVoltage(twin, env, 1, out_null),
              0, env, out_null, epoch, changes)

DoGetRawAdcValue ==
  /\ Ready
  /\ \E out_null \in BOOLEAN : \E env \in ReadEnvs(out_null, FALSE, FewScripts) :
       Commit("GetRawAdcValue", GetRawAdcValue(Sys, env, 1, out_null),
              GetRawAdcValue(twin, env, 1, out_null),
              0, env, out_null, epoch, changes)

DoCalibrate ==
  /\ Ready /\ FilterBudget /\ changes < MaxChanges
  /\ \E ref \in CalibrationReferences : \E env \in ReadEnvs(FALSE, TRUE, FewScripts) :
       CommitRead("Calibrate", Calibrate(Sys, ref, env), Calibrate(twin, ref, env),
                  ref, env, FALSE)

DoSetCalibrationOffset ==
  /\ Ready /\ changes < MaxChanges
  /\ \E o \in Offsets :
       CommitSet("SetCalibrationOffset", SetCalibrationOffset(Sys, o),
                 SetCalibrationOffset(twin, o), o, FALSE)

DoResetCalibration ==
  /\ Ready /\ changes < MaxChanges
  /\ CommitSet("ResetCalibration", ResetCalibration(Sys), ResetCalibration(twin),
               0, FALSE)

DoSetConversionMethod ==
  /\ Ready /\ changes < MaxChanges
  /\ \E m \in ConversionMethods :
       CommitSet("SetConversionMethod", SetConversionMethod(Sys, m),
                 SetConversionMethod(twin, SwapMethod(m)), 0, FALSE)

DoSetVoltageDivider ==
  /\ Ready /\ changes < MaxChanges
  /\ \E x \in SeriesResistances :
       CommitSet("SetVoltageDivider", SetVoltageDivider(Sys, x),
                 SetVoltageDivider(twin, x), x, FALSE)

DoSetReferenceVoltage ==
  /\ Ready /\ changes < MaxChanges
  /\ \E x \in ReferenceVoltages :
       CommitSet("SetReferenceVoltage", SetReferenceVoltage(Sys, x),
                 SetReferenceVoltage(twin, x), x, FALSE)

DoSetBetaValue ==
  /\ Ready /\ changes < MaxChanges
  /\ \E x \in BetaValues :
       CommitSet("SetBetaValue", SetBetaValue(Sys, x), SetBetaValue(twin, x), x, FALSE)

DoSetAdcChannel ==
  /\ Ready /\ changes < MaxChanges
  /\ \E x \in AdcChannels :
       CommitSet("SetAdcChannel", SetAdcChannel(Sys, x), SetAdcChannel(twin, x), x, FALSE)

DoSetSamplingParameters ==
  /\ Ready /\ changes < MaxChanges
  /\ \E n \in SampleCounts :
       CommitSet("SetSamplingParameters", SetSamplingParameters(Sys, n, 1),
                 SetSamplingParameters(twin, n, 1), n, FALSE)

DoSetFiltering ==
  /\ Ready /\ changes < MaxChanges
  /\ \E enable \in BOOLEAN : \E alpha \in FilterAlphas :
       CommitSet("SetFiltering", SetFiltering(Sys, enable, alpha),
                 SetFiltering(twin, enable, alpha), alpha, TRUE)

Forget ==
  /\ ~crashed /\ last.op # "none"
  /\ last' = NoLast
  /\ UNCHANGED <<config, initialized, filtered_temperature, filter_initialized,
                 adc_null, adc_initialized, crashed, prev, epoch, changes, twin, call,
                 threads>>

Next ==
  \/ Forget
  \/ DoInitialize
  \/ DoDeinitialize
  \/ DoSetConfiguration
  \/ DoReadTemperatureCelsius
  \/ DoReadTemperatureFahrenheit
  \/ DoReadTemperatureKelvin
  \/ DoReadTemperature
  \/ DoGetResistance
  \/ DoGetVoltage
  \/ DoGetRawAdcValue
  \/ DoCalibrate
  \/ DoSetCalibrationOffset
  \/ DoResetCalibration
  \/ DoSetConversionMethod
  \/ DoSetVoltageDivider
  \/ DoSetReferenceVoltage
  \/ DoSetBetaValue
  \/ DoSetAdcChannel
  \/ DoSetSamplingParameters
  \/ DoSetFiltering

Spec == Init /\ [][Next]_vars

----------------------------------------------------------------------------
(* The lookup table functions of NtcLookupTable.cpp called on their own, as  *)
(* a program using the library calls them.  The driver stands by.            *)

\* a custom table of three entries
CustomTable ==
  [null |-> FALSE, entries_null |-> FALSE,
   entries |-> << <<300, 0>>, <<200, 1000>>, <<100, 2000>> >>,
   entry_count |-> 3, min_resistance |-> 100, max_resistance |-> 300,
   min_temperature |-> 0, max_temperature |-> 2000]

\* a table whose resistances are not strictly decreasing
UnsortedTable ==
  [CustomTable EXCEPT !.entries = << <<300, 0>>, <<300, 1000>>, <<100, 2000>> >>]

\* a table whose entries pointer is null, and one of a single entry
NoEntriesTable == [CustomTable EXCEPT !.entries_null = TRUE]
SingleEntryTable ==
  [CustomTable EXCEPT !.entries = << <<300, 0>> >>, !.entry_count = 1]

LookupTables ==
  {NTCG163JFT103FT1S_LOOKUP_TABLE, CustomTable, UnsortedTable, NullTable,
   NoEntriesTable, SingleEntryTable}

\* resistances from one unit below the smallest min_resistance to one unit
\* above the largest max_resistance, in tenths
QueryResistances == -10 .. 3377

\* temperatures from -41 C to 126 C in steps of a quarter degree
QueryTemperatures == {25 * k : k \in -164 .. 504}

driver ==
  <<config, initialized, filtered_temperature, filter_initialized, adc_null,
    adc_initialized, crashed, last, prev, epoch, changes, twin, threads>>

TableInit ==
  /\ config = NTC_CONFIG_DEFAULT
  /\ initialized = FALSE
  /\ filtered_temperature = kZeroFloat
  /\ filter_initialized = FALSE
  /\ adc_null = FALSE
  /\ adc_initialized = FALSE
  /\ crashed = FALSE
  /\ last = NoLast
  /\ prev = NoPrev
  /\ epoch = NoEpoch
  /\ changes = 0
  /\ twin = [Sys EXCEPT !.config = SwapConfig(config)]
  /\ call = NoCall
  /\ threads = NoThreads

\* the return of FindTemperatureFromLookupTable with result f
ReturnTemperature(table, resistance_ohms, f) ==
  /\ call' = [op |-> "FindTemperatureFromLookupTable", table |-> table,
              arg |-> resistance_ohms, ok |-> f.ok, out |-> f.t, crash |-> f.crash,
              searched |-> f.searched, round_trip |-> FALSE, from |-> 0]
  /\ UNCHANGED driver

\* the return of FindResistanceFromLookupTable with result f
ReturnResistance(table, temperature_celsius, f, round_trip, from) ==
  /\ call' = [op |-> "FindResistanceFromLookupTable", table |-> table,
              arg |-> temperature_celsius, ok |-> f.ok, out |-> f.r, crash |-> FALSE,
              searched |-> f.searched, round_trip |-> round_trip, from |-> from]
  /\ UNCHANGED driver

DoFindTemperatureFromLookupTable ==
  /\ call.op = "none"
  /\ \E table \in LookupTables : \E resistance_ohms \in QueryResistances :
     \E ub \in UbOutcomes :
       ReturnTemperature(table, resistance_ohms,
                         FindTemperatureFromLookupTable(table, resistance_ohms, ub))

DoFindResistanceFromLookupTable ==
  /\ call.op = "none"
  /\ \E table \in LookupTables : \E temperature_celsius \in QueryTemperatures :
       ReturnResistance(table, temperature_celsius,
                        FindResistanceFromLookupTable(table, temperature_celsius),
                        FALSE, 0)

\* the temperature just looked up is passed back to the same table
DoFindResistanceOfTemperature ==
  /\ call.op = "FindTemperatureFromLookupTable" /\ call.ok /\ ~call.crash
  /\ ReturnResistance(call.table, call.out,
                      FindResistanceFromLookupTable(call.table, call.out),
                      TRUE, call.arg)

\* the return of BinarySearchLookupTable with result b; ub is the outcome
\* taken if the search left the table
ReturnIndices(table, resistance_ohms, ub, b) ==
  /\ call' = [op |-> "BinarySearchLookupTable", table |-> table,
              arg |-> resistance_ohms, ok |-> b.ok /\ ~(b.oob /\ ub.crash),
              lower |-> b.lower, upper |-> b.upper, oob |-> b.oob,
              crash |-> b.oob /\ ub.crash]
  /\ UNCHANGED driver

\* the return of ValidateLookupTable
ReturnValidated(table, ok) ==
  /\ call' = [op |-> "ValidateLookupTable", table |-> table, ok |-> ok,
              crash |-> FALSE]
  /\ UNCHANGED driver

DoValidateLookupTable ==
  /\ call.op = "none"
  /\ \E table \in LookupTables : ReturnValidated(table, ValidateLookupTable(table))

\* called on the tables whose entries pointer is not null
DoBinarySearchLookupTable ==
  /\ call.op = "none"
  /\ \E table \in {t \in LookupTables : ~t.entries_null} :
     \E resistance_ohms \in QueryResistances :
     \E ub \in UbOutcomes :
       ReturnIndices(table, resistance_ohms, ub,
                     BinarySearchLookupTable(table, resistance_ohms))

ForgetCall ==
  /\ call.op # "none" /\ ~call.crash
  /\ call' = NoCall
  /\ UNCHANGED driver

TableNext ==
  \/ DoFindTemperatureFromLookupTable
  \/ DoFindResistanceFromLookupTable
  \/ DoFindResistanceOfTemperature
  \/ DoBinarySearchLookupTable
  \/ DoValidateLookupTable
  \/ ForgetCall

TableSpec == TableInit /\ [][TableNext]_vars

----------------------------------------------------------------------------
(* The characterization functions of NtcConversion.cpp called on their own. *)

\* the logarithms of the resistances tried: e^-3 and e^14 ohm are outside
\* [kMinResistanceOhms, kMaxResistanceOhms]
LogResistances == {-3, 5, 7, 8, 9, 10, 14}

\* 0 C, 25 C, 50 C, 75 C and 1001 C
PointTemperatures == {0, 2500, 5000, 7500, 100100}

\* the return of CalculateSteinhartHartCoefficients with result f
ReturnCoefficients(t, k, f) ==
  /\ call' = [op |-> "CalculateSteinhartHartCoefficients", t |-> t, k |-> k,
              ok |-> f.ok, solved |-> f.solved, det |-> f.det,
              coeff_a |-> f.coeff_a, coeff_b |-> f.coeff_b, coeff_c |-> f.coeff_c,
              crash |-> FALSE]
  /\ UNCHANGED driver

DoCalculateSteinhartHartCoefficients ==
  /\ call.op = "none"
  /\ \E t \in [1 .. 3 -> PointTemperatures] : \E k \in [1 .. 3 -> LogResistances] :
       ReturnCoefficients(t, k,
         CalculateSteinhartHartCoefficients(t[1], k[1], t[2], k[2], t[3], k[3]))

\* thermistor voltages from below zero to above the reference, reference
\* voltages and series resistances with zero and a negative value among them
DividerVoltages == {-100, 0, 1000, 1650, 2500, 3299, 3300, 3400, 5000}
DividerReferences == {-3300, 0, 3300, 5000}
DividerResistances == {-10, 0, 100000, 470000}

\* the return of CalculateThermistorResistance with result f
ReturnDividerResistance(voltage_thermistor, reference_voltage, series_resistance, f) ==
  /\ call' = [op |-> "CalculateThermistorResistance",
              voltage_thermistor |-> voltage_thermistor,
              reference_voltage |-> reference_voltage,
              series_resistance |-> series_resistance,
              ok |-> f.ok, out |-> f.r, crash |-> FALSE]
  /\ UNCHANGED driver

DoCalculateThermistorResistance ==
  /\ call.op = "none"
  /\ \E v \in DividerVoltages : \E v_ref \in DividerReferences :
     \E r_series \in DividerResistances :
       ReturnDividerResistance(v, v_ref, r_series,
                               CalculateThermistorResistance(v, v_ref, r_series))

\* resistances in tenths of an ohm: 0 and 1000000.1 ohm are not valid, the
\* others are, two of them a tenth of an ohm apart
ConversionResistances(fn) ==
  IF fn = "ConvertResistanceToTemperatureBeta"
    THEN {0, 1, 100000, 200000, 573726, 573727, 10000000, 10000001}
    ELSE {0, 1, 100000, 200000, 539526, 539527, 10000000, 10000001}

\* the parameters of the Beta conversion tried: <<resistance_at_25c, beta>>
BetaParameters == {<<100000, 3435>>, <<0, 3435>>, <<100000, 500>>}

\* the coefficients tried: <<A, B, C>>, the last one not valid
SteinhartHartParameters ==
  {<<11290, 2341, 9>>, <<11290, 2341, -10>>, <<11290, 0, 0>>}

\* the return of a forward conversion fn with result f; second: the call
\* repeats the call before, which returned before for the lower resistance from
ReturnConverted(fn, resistance_ohms, parameters, f, second, from, before) ==
  /\ call' = [op |-> fn, arg |-> resistance_ohms, parameters |-> parameters,
              ok |-> f.ok, out |-> f.t, crash |-> FALSE,
              second |-> second, from |-> from, before |-> before]
  /\ UNCHANGED driver

ForwardConversion(fn, resistance_ohms, parameters) ==
  IF fn = "ConvertResistanceToTemperatureBeta"
    THEN ConvertResistanceToTemperatureBeta(resistance_ohms, parameters[1], parameters[2])
    ELSE ConvertResistanceToTemperatureSteinhartHart(resistance_ohms, parameters[1],
                                                     parameters[2], parameters[3])

DoConvertResistanceToTemperatureBeta ==
  /\ call.op = "none"
  /\ \E resistance_ohms \in ConversionResistances("ConvertResistanceToTemperatureBeta") :
     \E parameters \in BetaParameters :
       ReturnConverted("ConvertResistanceToTemperatureBeta", resistance_ohms, parameters,
                       ForwardConversion("ConvertResistanceToTemperatureBeta",
                                         resistance_ohms, parameters),
                       FALSE, 0, 0)

DoConvertResistanceToTemperatureSteinhartHart ==
  /\ call.op = "none"
  /\ \E resistance_ohms \in
          ConversionResistances("ConvertResistanceToTemperatureSteinhartHart") :
     \E parameters \in SteinhartHartParameters :
       ReturnConverted("ConvertResistanceToTemperatureSteinhartHart", resistance_ohms,
                       parameters,
                       ForwardConversion("ConvertResistanceToTemperatureSteinhartHart",
                                         resistance_ohms, parameters),
                       FALSE, 0, 0)

\* the conversion that just succeeded is called again, with the same
\* parameters and a higher resistance
DoConvertHigherResistance ==
  /\ call.op \in {"ConvertResistanceToTemperatureBeta",
                  "ConvertResistanceToTemperatureSteinhartHart"}
  /\ call.ok /\ ~call.second
  /\ \E resistance_ohms \in ConversionResistances(call.op) :
       /\ resistance_ohms > call.arg
       /\ ReturnConverted(call.op, resistance_ohms, call.parameters,
                          ForwardConversion(call.op, resistance_ohms, call.parameters),
                          TRUE, call.arg, call.out)

ConversionNext ==
  \/ DoCalculateSteinhartHartCoefficients
  \/ DoConvertResistanceToTemperatureBeta
  \/ DoConvertResistanceToTemperatureSteinhartHart
  \/ DoConvertHigherResistance
  \/ DoCalculateThermistorResistance
  \/ ForgetCall

ConversionSpec == TableInit /\ [][ConversionNext]_vars

----------------------------------------------------------------------------
(* Two threads calling the same driver.  The driver has no lock and no      *)
(* atomic member, so the calls interleave statement by statement: every     *)
(* action below is one load or one store of a member, at the line named.    *)

ThreadVoltages == {1650, 2200}

\* the driver the threads share: initialized, filtering enabled
ThreadConfig ==
  [TestConfig EXCEPT !.enable_filtering = TRUE, !.filter_alpha = 5]

\* everything the threads' calls leave alone
bystanders ==
  <<initialized, adc_null, adc_initialized, crashed, last, prev, epoch, changes,
    twin, call>>

ThreadInit ==
  /\ config = ThreadConfig
  /\ initialized = TRUE
  /\ filter_initialized \in BOOLEAN
  /\ filtered_temperature = IF filter_initialized THEN 2500 ELSE kZeroFloat
  /\ adc_null = FALSE
  /\ adc_initialized = TRUE
  /\ crashed = FALSE
  /\ last = NoLast
  /\ prev = NoPrev
  /\ epoch = NoEpoch
  /\ changes = 0
  /\ twin = [Sys EXCEPT !.config = SwapConfig(config)]
  /\ call = NoCall
  /\ threads = [start |-> Sys, of |-> [i \in Threads |-> IdleThread]]

\* the ADC of a call that reads mv on every sample
SteadyAdc(mv) == [ensure_ok |-> TRUE, first |-> Ok(mv), rest |-> Ok(mv), ub |-> NoUb]

\* thread i moves on to pc with t in its local; the members become c, fi, ft
ThreadStep(i, pc, t, c, fi, ft) ==
  /\ threads' = [threads EXCEPT !.of[i].pc = pc, !.of[i].t = t]
  /\ config' = c
  /\ filter_initialized' = fi
  /\ filtered_temperature' = ft
  /\ UNCHANGED bystanders

\* thread i returns ret and out
ThreadReturn(i, ret, out, ft) ==
  /\ threads' = [threads EXCEPT !.of[i].pc = "done", !.of[i].ret = ret, !.of[i].out = out]
  /\ filtered_temperature' = ft
  /\ UNCHANGED <<config, filter_initialized>>
  /\ UNCHANGED bystanders

\* ReadTemperatureCelsius up to the calibration offset (lines 151-183), with
\* r what the call returns when filtering is off
ThreadMeasured(i, mv, r) ==
  /\ threads' = [threads EXCEPT
       !.of[i] = [IdleThread EXCEPT
                    !.op = "ReadTemperatureCelsius", !.mv = mv,
                    !.pc = IF r.diag.conv_ret = "NTC_SUCCESS" THEN "enabled" ELSE "done",
                    !.t = r.diag.unf,
                    !.ret = IF r.diag.conv_ret = "NTC_SUCCESS" THEN "none" ELSE r.ret]]
  /\ UNCHANGED <<config, filter_initialized, filtered_temperature>>
  /\ UNCHANGED bystanders

ThreadCallsReadTemperatureCelsius ==
  \E i \in Threads : \E mv \in ThreadVoltages :
    /\ threads.of[i].pc = "idle"
    /\ ThreadMeasured(i, mv,
         ReadTemperatureCelsius([Sys EXCEPT !.config.enable_filtering = FALSE],
                                SteadyAdc(mv), 1, FALSE))

\* line 186: if (config_.enable_filtering)
ThreadTestsEnableFiltering ==
  \E i \in Threads :
    /\ threads.of[i].pc = "enabled"
    /\ ThreadStep(i, IF config.enable_filtering THEN "apply" ELSE "validate",
                  threads.of[i].t, config, filter_initialized, filtered_temperature)

\* line 753: if (!config_.enable_filtering) return new_temperature
ThreadEntersApplyFiltering ==
  \E i \in Threads :
    /\ threads.of[i].pc = "apply"
    /\ ThreadStep(i, IF config.enable_filtering THEN "seeded" ELSE "validate",
                  threads.of[i].t, config, filter_initialized, filtered_temperature)

\* line 757: if (!filter_initialized_)
ThreadTestsFilterInitialized ==
  \E i \in Threads :
    /\ threads.of[i].pc = "seeded"
    /\ ThreadStep(i, IF filter_initialized THEN "load" ELSE "seed",
                  threads.of[i].t, config, filter_initialized, filtered_temperature)

\* line 758: filtered_temperature_ = new_temperature
ThreadSeedsFilter ==
  \E i \in Threads :
    /\ threads.of[i].pc = "seed"
    /\ ThreadStep(i, "flag", threads.of[i].t, config, filter_initialized, threads.of[i].t)

\* lines 759-760: filter_initialized_ = true; return new_temperature
ThreadSetsFilterInitialized ==
  \E i \in Threads :
    /\ threads.of[i].pc = "flag"
    /\ ThreadStep(i, "validate", threads.of[i].t, config, TRUE, filtered_temperature)

\* lines 764-765, right-hand side: the loads of filter_alpha and
\* filtered_temperature_ and the moving average of them
ThreadLoadsFilter ==
  \E i \in Threads :
    /\ threads.of[i].pc = "load"
    /\ ThreadStep(i, "store",
                  (config.filter_alpha * threads.of[i].t
                   + (kOneFloat - config.filter_alpha) * filtered_temperature) \div kOneFloat,
                  config, filter_initialized, filtered_temperature)

\* line 764, left-hand side: the store to filtered_temperature_
ThreadStoresFilter ==
  \E i \in Threads :
    /\ threads.of[i].pc = "store"
    /\ ThreadStep(i, "return", threads.of[i].t, config, filter_initialized, threads.of[i].t)

\* line 767: return filtered_temperature_, the member read again or the value
\* just stored kept in a register
ThreadReturnsFiltered ==
  \E i \in Threads : \E t \in {filtered_temperature, threads.of[i].t} :
    /\ threads.of[i].pc = "return"
    /\ ThreadStep(i, "validate", t, config, filter_initialized, filtered_temperature)

\* lines 190-196: the range check and the return
ThreadValidates ==
  \E i \in Threads :
    /\ threads.of[i].pc = "validate"
    /\ ThreadReturn(i,
         IF ValidateTemperature(threads.of[i].t, config.min_temperature,
                                config.max_temperature)
           THEN "NTC_SUCCESS" ELSE "NTC_ERR_TEMPERATURE_OUT_OF_RANGE",
         threads.of[i].t, filtered_temperature)

\* SetFiltering, lines 491-496: the check of alpha
ThreadCallsSetFiltering ==
  \E enable \in BOOLEAN : \E alpha \in FilterAlphas :
    /\ threads.of[2].pc = "idle"
    /\ threads' = [threads EXCEPT
         !.of[2] = [IdleThread EXCEPT
                      !.op = "SetFiltering", !.enable = enable, !.alpha = alpha,
                      !.pc = IF alpha < 0 \/ alpha > kOneFloat THEN "done" ELSE "enable",
                      !.ret = IF alpha < 0 \/ alpha > kOneFloat
                                THEN "NTC_ERR_INVALID_PARAMETER" ELSE "none"]]
    /\ UNCHANGED <<config, filter_initialized, filtered_temperature>>
    /\ UNCHANGED bystanders

\* line 498: config_.enable_filtering = enable
ThreadStoresEnableFiltering ==
  /\ threads.of[2].pc = "enable"
  /\ ThreadStep(2, "alpha", 0, [config EXCEPT !.enable_filtering = threads.of[2].enable],
                filter_initialized, filtered_temperature)

\* line 499: config_.filter_alpha = alpha
ThreadStoresFilterAlpha ==
  /\ threads.of[2].pc = "alpha"
  /\ ThreadStep(2, "reset", 0, [config EXCEPT !.filter_alpha = threads.of[2].alpha],
                filter_initialized, filtered_temperature)

\* line 502: filter_initialized_ = false
ThreadResetsFilterInitialized ==
  /\ threads.of[2].pc = "reset"
  /\ ThreadStep(2, "zero", 0, config, FALSE, filtered_temperature)

\* lines 503-505: filtered_temperature_ = kZeroFloat; return NTC_SUCCESS
ThreadResetsFilter ==
  /\ threads.of[2].pc = "zero"
  /\ ThreadReturn(2, "NTC_SUCCESS", 0, kZeroFloat)

ThreadNext ==
  \/ ThreadCallsReadTemperatureCelsius
  \/ ThreadTestsEnableFiltering
  \/ ThreadEntersApplyFiltering
  \/ ThreadTestsFilterInitialized
  \/ ThreadSeedsFilter
  \/ ThreadSetsFilterInitialized
  \/ ThreadLoadsFilter
  \/ ThreadStoresFilter
  \/ ThreadReturnsFiltered
  \/ ThreadValidates
  \/ ThreadCallsSetFiltering
  \/ ThreadStoresEnableFiltering
  \/ ThreadStoresFilterAlpha
  \/ ThreadResetsFilterInitialized
  \/ ThreadResetsFilter

ThreadSpec == ThreadInit /\ [][ThreadNext]_vars

----------------------------------------------------------------------------
(* Properties *)

ReadOps ==
  {"ReadTemperatureCelsius", "ReadTemperatureFahrenheit", "ReadTemperatureKelvin",
   "ReadTemperature", "GetResistance", "GetVoltage", "GetRawAdcValue"}

ConfigMutators ==
  {"SetConfiguration", "SetFiltering", "SetCalibrationOffset", "ResetCalibration",
   "Calibrate", "SetConversionMethod", "SetVoltageDivider", "SetReferenceVoltage",
   "SetBetaValue", "SetAdcChannel", "SetSamplingParameters"}

\* C1: while the driver is not initialized, every reading operation called
\* with a non-null output, and Calibrate, returns NotInitialized, makes no ADC
\* call and leaves configuration and filter state as they were.
C1_UninitializedRejected ==
  [][ (last'.op \in ReadOps \cup {"Calibrate"} /\ ~last'.flag /\ ~initialized)
        => /\ last'.ret = "NTC_ERR_NOT_INITIALIZED"
           /\ last'.reads = 0 /\ last'.calls = 0
           /\ config' = config
           /\ filter_initialized' = filter_initialized
           /\ filtered_temperature' = filtered_temperature
           /\ initialized' = initialized ]_vars

\* a read rejected by an uninitialized driver whose ADC is initialized and whose
\* configuration or filter was changed before
C1_Witness ==
  /\ last.op \in ReadOps /\ ~last.flag /\ ~initialized /\ adc_initialized
  /\ last.ret = "NTC_ERR_NOT_INITIALIZED" /\ changes > 0

\* C2: Initialize on an uninitialized driver returns true and sets the flag
\* exactly when the configuration validates, the ADC is non-null, the ADC is
\* initialized or EnsureInitialized succeeds, and the channel is available;
\* on success the filter is reset; otherwise the driver stays uninitialized.
C2_InitializeSucceedsExactlyWhen ==
  [][ (last'.op = "Initialize" /\ ~initialized)
        => LET good == /\ config.resistance_at_25c > 0
                       /\ config.beta_value >= 1000 /\ config.beta_value <= 5000
                       /\ config.reference_voltage > 0
                       /\ config.series_resistance > 0
                       /\ config.sample_count >= 1
                       /\ config.min_temperature < config.max_temperature
                       /\ (config.enable_filtering =>
                             config.filter_alpha >= 0 /\ config.filter_alpha <= 10)
                       /\ ~adc_null
                       /\ (adc_initialized \/ last'.flag)
                       /\ config.adc_channel <= 6
           IN  /\ (last'.ret = "true") <=> good
               /\ (last'.ret = "false") <=> ~good
               /\ initialized' <=> good
               /\ good => (~filter_initialized' /\ filtered_temperature' = 0)
               /\ config' = config ]_vars

\* Initialize succeeded after it had to initialize the ADC itself
C2_Witness ==
  /\ last.op = "Initialize" /\ last.ret = "true" /\ last.calls = 3 /\ last.flag
  /\ initialized /\ ~filter_initialized

\* C3: Initialize on an initialized driver returns true, changes nothing and
\* calls no ADC method.
C3_InitializeIdempotent ==
  [][ (last'.op = "Initialize" /\ initialized)
        => /\ last'.ret = "true"
           /\ last'.calls = 0 /\ last'.reads = 0
           /\ config' = config
           /\ filter_initialized' = filter_initialized
           /\ filtered_temperature' = filtered_temperature
           /\ initialized'
           /\ adc_initialized' = adc_initialized ]_vars

\* a second Initialize that found a seeded filter and left it seeded
C3_Witness ==
  /\ last.op = "Initialize" /\ last.ret = "true" /\ last.calls = 0
  /\ initialized /\ filter_initialized /\ filtered_temperature # 0

\* C4: ReadTemperatureCelsius returns Success only with a delivered value
\* inside [min_temperature, max_temperature]; when voltage, resistance and
\* conversion succeeded and the delivered value is outside, it returns
\* TemperatureOutOfRange.
C4_RangeChecked ==
  (last.op = "ReadTemperatureCelsius" /\ ~crashed)
    => /\ last.ret = "NTC_SUCCESS"
            => /\ last.written
               /\ config.min_temperature <= last.out
               /\ last.out <= config.max_temperature
       /\ (last.diag.conv_ret = "NTC_SUCCESS"
           /\ (last.out < config.min_temperature \/ last.out > config.max_temperature))
            => last.ret = "NTC_ERR_TEMPERATURE_OUT_OF_RANGE"

\* a filtered value rejected as out of range
C4_Witness ==
  /\ last.op = "ReadTemperatureCelsius"
  /\ last.ret = "NTC_ERR_TEMPERATURE_OUT_OF_RANGE"
  /\ config.enable_filtering /\ last.written

\* C5: with filtering enabled, the first successful temperature read since
\* the filter was reset returns the unfiltered converted-plus-offset value
\* raw1, and the second returns alpha * raw2 + (1 - alpha) * raw1.
C5_FilterSeeding ==
  (last.op = "ReadTemperatureCelsius" /\ last.ret = "NTC_SUCCESS" /\ ~crashed
   /\ config.enable_filtering)
    => /\ epoch.reads = 1 => last.out = last.diag.unf
       /\ epoch.reads = 2 =>
            last.out = (config.filter_alpha * last.diag.unf
                        + (10 - config.filter_alpha) * epoch.raw1) \div 10

\* C6: after every successful configuration-mutating operation the filter is
\* reset (filter_initialized false).
C6_MutatorsResetFilter ==
  (last.op \in ConfigMutators /\ last.ret = "NTC_SUCCESS" /\ ~crashed)
    => ~filter_initialized

\* C7: a successful Calibrate(ref) sets the offset to ref minus the current
\* temperature read without any calibration offset; with filtering disabled
\* and the input unchanged, the next successful read returns exactly ref.
C7_CalibrateOffset ==
  [][ /\ (last'.op = "Calibrate" /\ last'.ret = "NTC_SUCCESS" /\ ~crashed'
          /\ ~config.enable_filtering)
        => config'.calibration_offset = last'.arg - last'.diag.raw
      /\ (prev.cal /\ last'.op = "ReadTemperatureCelsius"
          /\ last'.ret = "NTC_SUCCESS" /\ ~crashed'
          /\ last'.mv = prev.mv /\ ~config.enable_filtering)
        => last'.out = prev.ref ]_vars

\* C8: with filtering disabled and a constant input, Calibrate(25.0) called
\* twice in succession yields the same offset both times.
C8_CalibrateTwice ==
  [][ (prev.cal /\ prev.ref = 2500
       /\ last'.op = "Calibrate" /\ last'.arg = 2500
       /\ last'.ret = "NTC_SUCCESS" /\ ~crashed'
       /\ last'.mv = prev.mv /\ ~config.enable_filtering)
        => config'.calibration_offset = config.calibration_offset ]_vars

\* C9: in LookupTable mode, when the type has no table or the lookup fails,
\* the conversion's temperature and error code are those of the Beta
\* conversion of the same resistance; no lookup error reaches the caller.
C9_LookupFallsBackToBeta ==
  [][ LET table == GetNtcLookupTable(config.type)
          fails == \/ table.null
                   \/ last'.diag.resistance < table.min_resistance
                   \/ last'.diag.resistance > table.max_resistance
          beta  == ConvertResistanceToTemperatureBeta(last'.diag.resistance,
                       config.resistance_at_25c, config.beta_value)
      IN  (last'.diag.conv_ret # "none" /\ ~crashed'
           /\ config.conversion_method = "LookupTable" /\ fails)
            => /\ last'.diag.conv_ret =
                    (IF beta.ok THEN "NTC_SUCCESS" ELSE "NTC_ERR_CONVERSION_FAILED")
               /\ beta.ok => last'.diag.raw = beta.t
               /\ ~beta.ok => last'.ret = "NTC_ERR_CONVERSION_FAILED"
               /\ last'.ret # "NTC_ERR_LOOKUP_TABLE_ERROR" ]_vars

\* a type with a table, a resistance above the table's range, Beta answered
C9_Witness ==
  /\ last.op = "ReadTemperatureCelsius" /\ last.ret = "NTC_SUCCESS"
  /\ config.conversion_method = "LookupTable"
  /\ ~GetNtcLookupTable(config.type).null
  /\ last.diag.resistance > GetNtcLookupTable(config.type).max_resistance
  /\ last.diag.table
  /\ last.out = 2500 + config.calibration_offset

SuccessfulSamples ==
  (IF last.first.err = "SUCCESS" THEN 1 ELSE 0)
    + (IF last.rest.err = "SUCCESS" THEN config.sample_count - 1 ELSE 0)

SumOfSuccessfulSamples ==
  (IF last.first.err = "SUCCESS" THEN last.first.mv ELSE 0)
    + (IF last.rest.err = "SUCCESS" THEN (config.sample_count - 1) * last.rest.mv ELSE 0)

\* C11: with sample_count N > 1 the voltage read issues exactly N ADC reads,
\* succeeds exactly when at least one sample succeeded and then returns the
\* sum of the successful samples divided by their number, and fails with
\* AdcReadFailed exactly when all N failed; with N = 1 a failed sample fails
\* the read after one ADC read.
C11_AveragingToleratesFailure ==
  (last.op = "GetVoltage" /\ ~last.flag /\ initialized)
    => /\ config.sample_count > 1
            => /\ last.reads = config.sample_count
               /\ (last.ret = "NTC_SUCCESS") <=> (SuccessfulSamples >= 1)
               /\ (last.ret = "NTC_ERR_ADC_READ_FAILED") <=> (SuccessfulSamples = 0)
               /\ SuccessfulSamples >= 1
                    => /\ last.written
                       /\ last.out = SumOfSuccessfulSamples \div SuccessfulSamples
       /\ (config.sample_count = 1 /\ last.first.err # "SUCCESS")
            => /\ last.reads = 1
               /\ last.ret # "NTC_SUCCESS"
               /\ ~last.written

\* three samples of which only the first succeeded: the mean is that sample
C11_Witness ==
  /\ last.op = "GetVoltage" /\ initialized /\ config.sample_count = 3
  /\ last.first.err = "SUCCESS" /\ last.rest.err = "READ_FAILED"
  /\ last.reads = 3 /\ last.ret = "NTC_SUCCESS" /\ last.out = 1650

\* C12: whenever every ADC read of a reading cycle reports the same failure,
\* ReadTemperatureCelsius returns the code of that failure (Timeout for
\* Timeout, AdcReadFailed for ReadFailed, NotInitialized for NotInitialized,
\* HardwareFault for HardwareError, InvalidParameter for InvalidChannel), for
\* sample_count = 1 and for sample_count > 1.
C12_FailureKindPropagated ==
  (/\ last.op = "ReadTemperatureCelsius" /\ ~last.flag /\ initialized
   /\ last.first.err # "SUCCESS" /\ last.rest = last.first)
    => last.ret = CASE last.first.err = "TIMEOUT"         -> "NTC_ERR_TIMEOUT"
                    [] last.first.err = "READ_FAILED"     -> "NTC_ERR_ADC_READ_FAILED"
                    [] last.first.err = "NOT_INITIALIZED" -> "NTC_ERR_NOT_INITIALIZED"
                    [] last.first.err = "HARDWARE_ERROR"  -> "NTC_ERR_HARDWARE_FAULT"
                    [] last.first.err = "INVALID_CHANNEL" -> "NTC_ERR_INVALID_PARAMETER"

----------------------------------------------------------------------------
(* Properties of the lookup table functions, under TableSpec *)

\* the resistance r lies within the range the table declares
InDeclaredRange(table, r) == r >= table.min_resistance /\ r <= table.max_resistance

\* the linear interpolation of the temperature between entries i and i + 1
TemperatureBetween(table, i, r) ==
  EntryT(table, i)
    + FDiv((r - EntryR(table, i)) * (EntryT(table, i + 1) - EntryT(table, i)),
           EntryR(table, i + 1) - EntryR(table, i))

\* C13: for a valid table and a resistance within the declared range that
\* lies strictly between the resistances of consecutive entries i and i + 1,
\* FindTemperatureFromLookupTable succeeds and returns the linear
\* interpolation of that pair, a value between their temperatures.
C13_InterpolatesBracketingPair ==
  (/\ call.op = "FindTemperatureFromLookupTable"
   /\ ValidateLookupTable(call.table)
   /\ InDeclaredRange(call.table, call.arg))
    => \A i \in 0 .. call.table.entry_count - 2 :
         (EntryR(call.table, i) > call.arg /\ call.arg > EntryR(call.table, i + 1))
           => /\ call.ok /\ ~call.crash
              /\ call.out = TemperatureBetween(call.table, i, call.arg)
              /\ EntryT(call.table, i) <= call.out
              /\ call.out <= EntryT(call.table, i + 1)

\* C14: for every entry k of a valid table whose resistance lies within the
\* declared range, FindTemperatureFromLookupTable called with that resistance
\* succeeds and returns the entry's temperature.
C14_ExactMatchReturnsEntry ==
  (/\ call.op = "FindTemperatureFromLookupTable"
   /\ ValidateLookupTable(call.table)
   /\ InDeclaredRange(call.table, call.arg))
    => \A k \in 0 .. call.table.entry_count - 1 :
         EntryR(call.table, k) = call.arg
           => call.ok /\ ~call.crash /\ call.out = EntryT(call.table, k)

\* C15: FindTemperatureFromLookupTable returns failure, without crashing or
\* reading outside the table, for the resistance 1.0 above max_resistance and
\* 1.0 below min_resistance, and returns success for the resistances
\* min_resistance and max_resistance.
C15_Boundaries ==
  (call.op = "FindTemperatureFromLookupTable" /\ ValidateLookupTable(call.table))
    => /\ call.arg \in {call.table.max_resistance + 10, call.table.min_resistance - 10}
            => ~call.ok /\ ~call.crash
       /\ call.arg \in {call.table.min_resistance, call.table.max_resistance}
            => call.ok /\ ~call.crash

\* C16: for a resistance within the declared range of a valid table,
\* FindTemperatureFromLookupTable succeeds, and FindResistanceFromLookupTable
\* called with the temperature it returned succeeds and returns a resistance
\* within the pair of consecutive entries that bracket the resistance.
C16_RoundTrip ==
  /\ (/\ call.op = "FindTemperatureFromLookupTable"
      /\ ValidateLookupTable(call.table)
      /\ InDeclaredRange(call.table, call.arg))
       => call.ok /\ ~call.crash
  /\ (call.op = "FindResistanceFromLookupTable" /\ call.round_trip)
       => /\ call.ok
          /\ \E i \in 0 .. call.table.entry_count - 2 :
               /\ EntryR(call.table, i) >= call.from
               /\ call.from >= EntryR(call.table, i + 1)
               /\ EntryR(call.table, i) >= call.out
               /\ call.out >= EntryR(call.table, i + 1)

\* the temperatures of the table's entries increase
IncreasingTemperatures(table) ==
  \A i \in 1 .. table.entry_count - 1 : EntryT(table, i - 1) < EntryT(table, i)

\* the first pair of consecutive entries whose temperatures enclose t
FirstPair(table, t) ==
  CHOOSE i \in 0 .. table.entry_count - 2 :
    /\ EntryT(table, i) <= t /\ t <= EntryT(table, i + 1)
    /\ \A j \in 0 .. i - 1 : ~(EntryT(table, j) <= t /\ t <= EntryT(table, j + 1))

\* the linear interpolation of the resistance between entries i and i + 1
ResistanceBetween(table, i, t) ==
  EntryR(table, i)
    + FDiv((t - EntryT(table, i)) * (EntryR(table, i + 1) - EntryR(table, i)),
           EntryT(table, i + 1) - EntryT(table, i))

----------------------------------------------------------------------------
(* Properties of concurrent calls, under ThreadSpec *)

\* the call of a thread made alone on the driver s
SequentialCall(th, s) ==
  IF th.op = "SetFiltering"
    THEN SetFiltering(s, th.enable, th.alpha)
    ELSE ReadTemperatureCelsius(s, SteadyAdc(th.mv), 1, FALSE)

\* the thread returned what the sequential call r returns
ReturnedAs(th, r) == th.ret = r.ret /\ (r.written => th.out = r.out)

\* the calls returned, and left the driver, as thread a's call followed by
\* thread b's does
InOrder(a, b) ==
  LET ra == SequentialCall(threads.of[a], threads.start)
      rb == SequentialCall(threads.of[b], ra.s)
  IN  /\ ReturnedAs(threads.of[a], ra)
      /\ ReturnedAs(threads.of[b], rb)
      /\ config = rb.s.config
      /\ filter_initialized = rb.s.filter_initialized
      /\ filtered_temperature = rb.s.filtered_temperature

\* C18: when two threads call operations on the same driver concurrently, the
\* values returned and the resulting filter state and configuration are those
\* of the two calls made one after the other, in one order or the other.
C18_ThreadSafe ==
  (\A i \in Threads : threads.of[i].pc = "done") => (InOrder(1, 2) \/ InOrder(2, 1))

----------------------------------------------------------------------------
(* Further properties of the driver, under Spec *)

\* C19: whenever ReadTemperature returns Success with is_valid = true, the
\* voltage, the resistance and the temperature of the reading derive from one
\* ADC acquisition: the voltage is the one the temperature was computed from,
\* the resistance is the divider resistance of that voltage and the one the
\* temperature was converted from, also when the ADC value changes or an ADC
\* read fails between the internal reads of the call.
C19_ReadingIsSnapshot ==
  (/\ last.op = "ReadTemperature" /\ last.ret = "NTC_SUCCESS"
   /\ last.reading.is_valid /\ ~crashed)
    => /\ last.reading.voltage_volts = last.diag.voltage
       /\ last.reading.resistance_ohms = last.diag.resistance
       /\ last.reading.resistance_ohms =
            CalculateThermistorResistance(last.reading.voltage_volts,
                                          config.reference_voltage,
                                          config.series_resistance).r

----------------------------------------------------------------------------
(* Properties of the characterization functions, under ConversionSpec *)

\* the determinant of the matrix with rows (1, x_i, x_i^3), expanded along
\* its first row
VandermondeLikeDeterminant(x1, x2, x3) ==
  1 * (x2 * Cube(x3) - x3 * Cube(x2))
    - x1 * (Cube(x3) - Cube(x2))
    + Cube(x1) * (x3 - x2)

\* A + B ln R + C (ln R)^3 in 1e-7 per kelvin for ln R = x
SteinhartHartPolynomial(coeff_a, coeff_b, coeff_c, x) ==
  coeff_a + coeff_b * x + FDiv(coeff_c * Cube(x), 10)

\* C20: the value CalculateSteinhartHartCoefficients computes as det is the
\* determinant of the matrix with rows (1, ln R_i, (ln R_i)^3), and whenever
\* it returns true the coefficients satisfy 1/T_i = A + B ln R_i + C (ln R_i)^3
\* at each of the three points (here within 1e-5 per kelvin).
C20_CramersRule ==
  (call.op = "CalculateSteinhartHartCoefficients")
    => /\ call.solved
            => call.det = VandermondeLikeDeterminant(call.k[1], call.k[2], call.k[3])
       /\ call.ok
            => \A i \in 1 .. 3 :
                 Abs(SteinhartHartPolynomial(call.coeff_a, call.coeff_b, call.coeff_c,
                                             call.k[i])
                     - InverseKelvin(call.t[i])) <= 100

\* C21: CalculateThermistorResistance fails when v_thermistor is outside
\* [0, v_ref], when v_ref <= 0, when r_series <= 0 or when v_ref - v_thermistor
\* is zero, and otherwise succeeds with the quotient
\* r_series * v_thermistor / (v_ref - v_thermistor); a v_thermistor of half
\* v_ref gives exactly r_series.
C21_DividerResistance ==
  (call.op = "CalculateThermistorResistance")
    => LET v == call.voltage_thermistor
           v_ref == call.reference_voltage
           r_series == call.series_resistance
           fails == \/ v < 0 \/ v > v_ref
                    \/ v_ref <= 0
                    \/ r_series <= 0
                    \/ v_ref - v = 0
       IN  /\ call.ok <=> ~fails
           /\ call.ok => /\ call.out * (v_ref - v) <= r_series * v
                         /\ r_series * v < (call.out + 1) * (v_ref - v)
           /\ (call.ok /\ 2 * v = v_ref) => call.out = r_series

\* the example of the specification: 1.65 V of 3.3 V over 10 kohm
C21_Witness ==
  /\ call.op = "CalculateThermistorResistance"
  /\ call.voltage_thermistor = 1650 /\ call.reference_voltage = 3300
  /\ call.series_resistance = 100000
  /\ call.ok /\ call.out = 100000

\* C22: for valid parameters and two valid resistances R1 < R2 on which the
\* conversion succeeds, ConvertResistanceToTemperatureBeta, and likewise
\* ConvertResistanceToTemperatureSteinhartHart, returns a strictly lower
\* temperature for R2 than for R1.
C22_ForwardConversionsDecrease ==
  (/\ call.op \in {"ConvertResistanceToTemperatureBeta",
                   "ConvertResistanceToTemperatureSteinhartHart"}
   /\ call.second /\ call.ok)
    => call.out < call.before

----------------------------------------------------------------------------
(* Further properties of the lookup table functions, under TableSpec *)

\* C23: for every table of at least 2 strictly decreasing entries and every
\* target resistance, BinarySearchLookupTable reads only entries at indices
\* 0 .. entry_count - 1, its cursors never wrapping below zero, and returns
\* true with indices lower <= upper <= entry_count - 1 and upper - lower <= 1.
C23_BinarySearchStaysInTable ==
  (call.op = "BinarySearchLookupTable" /\ ValidateLookupTable(call.table))
    => /\ ~call.oob /\ ~call.crash
       /\ call.ok
       /\ call.lower <= call.upper
       /\ call.upper <= call.table.entry_count - 1
       /\ call.upper - call.lower <= 1

\* the table invariant: table and entries exist, at least two entries, and
\* every entry but the last has a higher resistance than the one after it
TableInvariant(table) ==
  /\ ~table.null /\ ~table.entries_null
  /\ table.entry_count >= 2
  /\ \A i \in 0 .. table.entry_count - 2 : EntryR(table, i) > EntryR(table, i + 1)

\* C24: ValidateLookupTable returns true exactly when the table pointer and
\* the entries pointer are non-null, entry_count >= 2 and the resistances
\* strictly decrease; FindTemperatureFromLookupTable and
\* FindResistanceFromLookupTable return failure, without searching the table
\* or writing the output, whenever that validation fails.
C24_ValidationGatesQueries ==
  /\ call.op = "ValidateLookupTable" => (call.ok <=> TableInvariant(call.table))
  /\ (/\ call.op \in {"FindTemperatureFromLookupTable", "FindResistanceFromLookupTable"}
      /\ ~TableInvariant(call.table))
       => ~call.ok /\ ~call.searched /\ ~call.crash /\ call.out = 0

\* a resistance within the declared range of a table with two equal
\* neighbours is refused without a search
C24_Witness ==
  /\ call.op = "FindTemperatureFromLookupTable"
  /\ call.table = UnsortedTable /\ call.arg = 200
  /\ ~call.ok /\ ~call.searched

----------------------------------------------------------------------------
(* Frame properties and invariants of the driver, under Spec *)

ValidatingSetters ==
  {"SetConfiguration", "SetVoltageDivider", "SetReferenceVoltage", "SetBetaValue",
   "SetAdcChannel", "SetSamplingParameters", "SetFiltering"}

\* C25: whenever SetConfiguration, SetVoltageDivider, SetReferenceVoltage,
\* SetBetaValue, SetAdcChannel, SetSamplingParameters or SetFiltering returns
\* InvalidParameter, the configuration record, the filter state and the
\* initialized flag are as before the call; SetConfiguration replaces the
\* whole record or none of it.
C25_RejectedSetterChangesNothing ==
  [][ /\ (last'.op \in ValidatingSetters /\ last'.ret = "NTC_ERR_INVALID_PARAMETER")
        => /\ config' = config
           /\ filter_initialized' = filter_initialized
           /\ filtered_temperature' = filtered_temperature
           /\ initialized' = initialized
      /\ last'.op = "SetConfiguration"
        => \/ last'.ret = "NTC_SUCCESS" /\ config' \in NewConfigs
           \/ last'.ret # "NTC_SUCCESS" /\ config' = config ]_vars

\* SetFiltering refused an alpha above 1 on a driver whose filter was seeded
C25_Witness ==
  /\ last.op = "SetFiltering" /\ last.ret = "NTC_ERR_INVALID_PARAMETER"
  /\ last.arg = 11
  /\ initialized /\ config.enable_filtering
  /\ filter_initialized /\ filtered_temperature # 0

\* C26: in every reachable state, if the driver is initialized then its
\* configuration passes validateConfiguration: resistance_at_25c > 0, beta in
\* [1000, 5000], reference_voltage > 0, series_resistance > 0,
\* sample_count >= 1, min_temperature < max_temperature, and filter_alpha in
\* [0, 1] when filtering is enabled.
C26_InitializedConfigurationValid ==
  initialized
    => /\ config.resistance_at_25c > 0
       /\ config.beta_value >= 1000 /\ config.beta_value <= 5000
       /\ config.reference_voltage > 0
       /\ config.series_resistance > 0
       /\ config.sample_count >= 1
       /\ config.min_temperature < config.max_temperature
       /\ config.enable_filtering => (config.filter_alpha >= 0 /\ config.filter_alpha <= 10)

\* an initialized driver whose beta value and filtering were set after
\* Initialize
C26_Witness ==
  /\ initialized
  /\ last.op = "SetBetaValue" /\ last.ret = "NTC_SUCCESS" /\ config.beta_value = 3950
  /\ config.enable_filtering /\ config.filter_alpha = 5

\* C27: with an ADC whose set of available channels does not change, in every
\* reachable state an initialized driver's adc_channel is a channel the ADC
\* reports available, so that an initialized driver never issues an ADC read
\* on an unavailable channel.
C27_InitializedChannelAvailable ==
  /\ initialized => IsChannelAvailable(config.adc_channel)
  /\ (last.reads > 0 /\ ~crashed) => IsChannelAvailable(config.adc_channel)

\* C28: a ReadTemperatureCelsius call that returns an error (ADC failure,
\* resistance calculation failure, conversion failure or
\* TemperatureOutOfRange) leaves filter_initialized and filtered_temperature
\* as they were before the call.
C28_FailedReadKeepsFilter ==
  [][ (/\ last'.op = "ReadTemperatureCelsius" /\ ~crashed'
       /\ last'.ret # "NTC_SUCCESS")
        => /\ filter_initialized' = filter_initialized
           /\ filtered_temperature' = filtered_temperature ]_vars

\* C29: Calibrate changes no driver state other than calibration_offset:
\* after it returns, successfully or not, the filter state, the initialized
\* flag and every other configuration field are as before the call, and on
\* failure calibration_offset is unchanged too.
C29_CalibrateFrame ==
  [][ (last'.op = "Calibrate" /\ ~crashed')
        => /\ filter_initialized' = filter_initialized
           /\ filtered_temperature' = filtered_temperature
           /\ initialized' = initialized
           /\ [config' EXCEPT !.calibration_offset = config.calibration_offset] = config
           /\ last'.ret # "NTC_SUCCESS" => config' = config ]_vars

\* C30: Deinitialize always returns true, leaves the driver uninitialized
\* with its configuration unchanged, and changes nothing on a driver that is
\* not initialized; a successful Initialize that follows a Deinitialize
\* leaves the whole configuration record as it was before the Deinitialize,
\* calibration offset and values set through setters included, and the filter
\* reset.
C30_DeinitializeInitializeKeepsConfiguration ==
  /\ last.op = "Deinitialize"
       => /\ last.ret = "true"
          /\ ~initialized
          /\ config = prev.before.config
          /\ ~filter_initialized /\ filtered_temperature = 0
          /\ ~prev.before.initialized => Sys = prev.before
  /\ (last.op = "Initialize" /\ last.ret = "true" /\ prev.reinit)
       => /\ initialized
          /\ config = prev.before.config
          /\ ~filter_initialized /\ filtered_temperature = 0

\* Initialize succeeded right after the Deinitialize of an initialized driver
\* whose filter was seeded and whose calibration offset had been set
C30_Witness ==
  /\ last.op = "Initialize" /\ last.ret = "true" /\ prev.reinit
  /\ prev.before.initialized /\ prev.before.filter_initialized
  /\ prev.before.filtered_temperature # 0
  /\ config.calibration_offset # 0
  /\ initialized /\ ~filter_initialized

====
